---- MODULE Spec2Model ----
(***************************************************************************)
(* CheatBook real-time collaboration: the collaborative-editing service    *)
(* (documents, participants, presence), the Socket.IO service that drives  *)
(* it (connections, join/leave, note-update, uploads, reconnection window, *)
(* session cleanup) and the earlier Socket.IO service kept in the tree     *)
(* (noteVersions based).                                                   *)
(***************************************************************************)
EXTENDS Integers, Sequences, FiniteSets, TLC

\* ------------------------------------------------------------------ bounds
MaxConn == 2            \* socket ids in use at a time
MaxLen == 2             \* longest note content, in characters
MaxVersion == 3         \* highest version a session reaches
MaxTimers == 3          \* pending setTimeout callbacks
MaxPending == 2         \* join-note handlers suspended on the database
MaxInflight == 1        \* db.run saves not yet completed
MaxOutstanding == 2     \* the same, where the order of two saves is studied

Users == {"u1", "u2"}
Notes == {"n1", "n2"}
Conns == 1..MaxConn
Chars == {"a", "b"}

NoUser == "none"
NoNote == "none"
NoDoc == [absent |-> TRUE]
NoContent == <<"null">>
Absent == <<"undefined">>      \* a field that a message does not have

\* ------------------------------------------------------------ note strings
RECURSIVE StringsUpTo(_)
StringsUpTo(k) ==
    IF k = 0 THEN {<<>>}
    ELSE LET S == StringsUpTo(k - 1)
         IN  S \cup {Append(s, ch) : s \in {t \in S : Len(t) = k - 1}, ch \in Chars}

Min(a, b) == IF a < b THEN a ELSE b
Max(a, b) == IF a > b THEN a ELSE b

\* String.prototype.slice(from, to) with both ends clamped to the string
Slice(s, from, to) ==
    LET f == Min(Max(from, 0), Len(s))
        t == Min(Max(to, 0), Len(s))
    IN  IF t <= f THEN <<>> ELSE SubSeq(s, f + 1, t)

\* ------------------------------------------------------------------ state
VARIABLES
    service,                \* the program that is running: "socket", "legacy" or "collab"
    userSockets,            \* socket id -> user id of the open connection, or NoUser
    userConnections,        \* user id -> set of socket ids (no entry: empty set)
    disconnectionTimeouts,  \* users with a pending reconnection-window timer
    currentNoteId,          \* socket.currentNoteId
    rooms,                  \* socket id -> notes whose room `note:<id>` it is in
    joined,                 \* socket id -> notes whose join-note ran to its end
    pendingJoins,           \* join-note handlers suspended on an await
    timers,                 \* pending setTimeout callbacks, oldest first
    documents,              \* noteId -> {content, version, users} or NoDoc
    activeUsers,            \* noteId -> participants (no entry: empty set)
    typingStatus,           \* noteId -> users typing
    cursorPositions,        \* noteId -> users with a cursor entry
    store,                  \* notes.content in the database
    inflight,               \* saves issued to the database and not yet run
    noteVersions,           \* earlier service: noteId -> {version, lastContent} or NoDoc
    activeTyping,           \* earlier service: noteId -> users typing
    activeUploads,          \* earlier service: noteId -> imageId -> ticket or NoTicket
    ev,                     \* the event handled last, with what it emitted
    accepted,               \* noteId -> operations accepted since the session was created
    applied,                \* noteId -> accepted operations folded over the loaded content
    lastClose,              \* user -> what the close of the user's last connection did
    watch,                  \* noteId -> saves issued since its last participant disconnected
    seen,                   \* socket id -> noteId -> version of the last edit broadcast it got
    fresh,                  \* noteId -> pending cleanup timers set since the last join
    docVersion,             \* socket id -> docVersion of the NoteEditor behind the socket
    cursorThrottle          \* throttle(updateCursorPosition, 50): window, queued call, last result

vars == <<service, userSockets, userConnections, disconnectionTimeouts, currentNoteId,
          rooms, joined, pendingJoins, timers, documents, activeUsers, typingStatus,
          cursorPositions, store, inflight, noteVersions, activeTyping, ev,
          accepted, applied, lastClose, watch, activeUploads, seen, fresh, docVersion, cursorThrottle>>

socketVars == <<userSockets, userConnections, disconnectionTimeouts, currentNoteId,
                rooms, joined, pendingJoins, timers>>
collabVars == <<documents, activeUsers, typingStatus, cursorPositions>>
legacyVars == <<noteVersions, activeTyping, activeUploads>>
dbVars == <<store, inflight>>

Contents == StringsUpTo(MaxLen)

\* ------------------------------------------------- operations on a string
\* insert: content.slice(0, index) + text + content.slice(index)
\* replace: content.slice(0, index) + text + content.slice(index + length)
ApplyToContent(content, op) ==
    IF op.type = "insert"
    THEN Slice(content, 0, op.index) \o op.text \o Slice(content, op.index, Len(content))
    ELSE Slice(content, 0, op.index) \o op.text
             \o Slice(content, op.index + op.length, Len(content))

InsertOp(index, text) == [type |-> "insert", index |-> index, length |-> 0, text |-> text]
ReplaceOp(index, length, text) ==
    [type |-> "replace", index |-> index, length |-> length, text |-> text]

\* the operations a client may submit against a content
OperationsOn(content) ==
    {InsertOp(i, <<ch>>) : i \in 0..Len(content), ch \in Chars}
    \cup {ReplaceOp(i, 1, <<ch>>) : i \in 0..(Len(content) - 1), ch \in Chars}
    \cup {ReplaceOp(0, Len(content), <<>>)}

\* ------------------------------------- collaborative-editing.service.js
\* variant: a document that starts at version 0
DocumentAtZero(initialContent) == [content |-> initialContent, version |-> 0, users |-> {}]

NewDocument(initialContent) == [content |-> initialContent, version |-> 1, users |-> {}]

\* variant: a document is created whether or not one is there
AlwaysCreate(docs, noteId, initialContent) ==
    [docs EXCEPT ![noteId] = NewDocument(initialContent)]

getOrCreateDocument(docs, noteId, initialContent) ==
    IF docs[noteId] = NoDoc
    THEN [docs EXCEPT ![noteId] = NewDocument(initialContent)]
    ELSE docs

\* addUserToDocument: returns the documents and the activeUsers maps
addUserToDocumentDocs(docs, noteId, userId) ==
    LET d == getOrCreateDocument(docs, noteId, <<>>)
    IN  [d EXCEPT ![noteId].users = @ \cup {userId}]

addUserToDocumentActive(active, noteId, userId) ==
    [active EXCEPT ![noteId] = @ \cup {userId}]

removeUserFromDocumentDocs(docs, noteId, userId) ==
    IF docs[noteId] = NoDoc THEN docs
    ELSE [docs EXCEPT ![noteId].users = @ \ {userId}]

\* the per-note maps keyed by user (activeUsers, cursorPositions, typingStatus)
removeUserFromDocumentMap(docs, map, noteId, userId) ==
    IF docs[noteId] = NoDoc THEN map
    ELSE [map EXCEPT ![noteId] = @ \ {userId}]

\* updateDocument as state change and as return value
\* variant: no version is ever found stale
NeverStale(doc, version) == FALSE

updateDocumentConflict(doc, version) == version < doc.version

\* variant: the stored version is the caller's, not one more
SameVersion(doc, version) == version

updateDocumentVersion(doc, version) == version + 1

\* variant: the version moves on but the content is not stored
updateDocumentKeepsContent(docs, noteId, content, version) ==
    LET d == getOrCreateDocument(docs, noteId, <<>>)
    IN  IF updateDocumentConflict(d[noteId], version) THEN d
        ELSE [d EXCEPT ![noteId].version = updateDocumentVersion(d[noteId], version)]

updateDocumentDocs(docs, noteId, content, version) ==
    LET d == getOrCreateDocument(docs, noteId, <<>>)
    IN  IF updateDocumentConflict(d[noteId], version) THEN d
        ELSE [d EXCEPT ![noteId].content = content,
                       ![noteId].version = updateDocumentVersion(d[noteId], version)]

updateDocumentResult(docs, noteId, content, version) ==
    LET d == getOrCreateDocument(docs, noteId, <<>>)
    IN  IF updateDocumentConflict(d[noteId], version)
        THEN [success |-> FALSE, conflict |-> TRUE,
              version |-> d[noteId].version, content |-> d[noteId].content]
        ELSE [success |-> TRUE, conflict |-> FALSE,
              version |-> updateDocumentVersion(d[noteId], version), content |-> NoContent]

\* ------------- collabService as socket.service.js calls it (part of the
\* service that the tree does not hold; written from the specification)
initializeDocument(docs, noteId, content) == getOrCreateDocument(docs, noteId, content)

joinSessionDocs(docs, noteId, userId) == addUserToDocumentDocs(docs, noteId, userId)
joinSessionActive(active, noteId, userId) == addUserToDocumentActive(active, noteId, userId)

leaveSessionDocs(docs, noteId, userId) == removeUserFromDocumentDocs(docs, noteId, userId)
leaveSessionMap(docs, map, noteId, userId) ==
    removeUserFromDocumentMap(docs, map, noteId, userId)

\* getDocumentState(noteId): null when no session is resident
getDocumentState(docs, active, noteId) ==
    IF docs[noteId] = NoDoc THEN NoDoc
    ELSE [content |-> docs[noteId].content, version |-> docs[noteId].version,
          activeUsers |-> active[noteId]]

cleanupDocument(map, noteId, empty) == [map EXCEPT ![noteId] = empty]

\* applyOperation(noteId, operation, baseVersion) -> {content, version, conflict}
applyOperationConflict(doc, baseVersion) == baseVersion < doc.version

applyOperationDocs(docs, noteId, op, baseVersion) ==
    IF applyOperationConflict(docs[noteId], baseVersion) THEN docs
    ELSE [docs EXCEPT ![noteId].content = ApplyToContent(@, op),
                      ![noteId].version = @ + 1]

applyOperationResult(docs, noteId, op, baseVersion) ==
    LET after == applyOperationDocs(docs, noteId, op, baseVersion)
    IN  [content |-> after[noteId].content, version |-> after[noteId].version,
         conflict |-> applyOperationConflict(docs[noteId], baseVersion)]

\* --------------------------------------------------------- the database
\* notes.owner_id and the collaborators table, as checkNoteAccess reads them
Owner == [n \in Notes |-> "u1"]
Collaborators == {<<"u2", "n1">>}
checkNoteAccess(userId, noteId) == Owner[noteId] = userId \/ <<userId, noteId>> \in Collaborators

InitialContent == [n \in Notes |-> IF n = "n1" THEN <<"a">> ELSE <<>>]

\* saveNoteContent issues an UPDATE that completes later
saveNoteContent(queue, noteId, content) == Append(queue, [note |-> noteId, content |-> content])

\* variant: every edit that is handled is saved
SaveEveryEdit(queue, shouldSave, noteId, content) == saveNoteContent(queue, noteId, content)

\* if (shouldSave) saveNoteContent(...) at the end of note-update
SaveIfAsked(queue, shouldSave, noteId, content) ==
    IF shouldSave THEN saveNoteContent(queue, noteId, content) ELSE queue

\* ------------------------------------------------------------- timers
GraceTimer(u) == [kind |-> "grace", id |-> u]
CleanupTimer(n) == [kind |-> "cleanup", id |-> n]

RECURSIVE Without(_, _)
Without(q, x) ==
    IF q = <<>> THEN <<>>
    ELSE IF Head(q) = x THEN Tail(q) ELSE <<Head(q)>> \o Without(Tail(q), x)

\* variant: the timer of the reconnection window is left pending
KeepTimeout(q, u) == q

clearTimeout(q, u) == Without(q, GraceTimer(u))

\* how many of the pending callbacks are x
Pending(q, x) == Cardinality({i \in 1..Len(q) : q[i] = x})

\* -------------------------------------------- observation of the last event
Quiet(type, c, n) == [type |-> type, conn |-> c, note |-> n]

Reply(kind, conflict, version, content) ==
    [kind |-> kind, conflict |-> conflict, version |-> version, content |-> content]

\* where an edit stands in a run of consecutive edits of one note:
\* 1: it carries the version the session has; 2: it follows a 1 from another
\* connection with the same baseVersion; 3: it follows a 2 from the same
\* connection and carries the version that 2 was answered with; 0: otherwise
Chain(c, n, base, verBefore) ==
    IF ev.type = "edit" /\ ev.note = n /\ ev.chain = 1 /\ ev.conn # c /\ ev.base = base
    THEN 2
    ELSE IF ev.type = "edit" /\ ev.note = n /\ ev.chain = 2 /\ ev.conn = c
            /\ base = ev.reply.version
    THEN 3
    ELSE IF verBefore > 0 /\ base = verBefore THEN 1
    ELSE 0

\* what a handler emits to the other sockets of the room: the event, the
\* sockets it goes to, the version it carries (0: none) and what else it carries
Cast(kind, to, version, carries) ==
    [kind |-> kind, to |-> to, version |-> version, carries |-> carries]
NoCast == Cast("none", {}, 0, "none")

\* the version of the last edit broadcast each socket got for a note
Deliver(s, to, n, version) ==
    [c \in Conns |-> IF c \in to THEN [s[c] EXCEPT ![n] = version] ELSE s[c]]

\* an edit as handled: what it asked (saved: its shouldSave), against which
\* version, the answer to the sender and the broadcast to the room
EditEvent(path, c, n, base, docsBefore, acc, reply, saved, cast) ==
    LET verBefore == IF docsBefore[n] = NoDoc THEN 0 ELSE docsBefore[n].version
    IN  [type |-> "edit", path |-> path, conn |-> c, note |-> n, base |-> base,
         verBefore |-> verBefore, accepted |-> acc, reply |-> reply, saved |-> saved,
         chain |-> Chain(c, n, base, verBefore), cast |-> cast]

NoWatch == [on |-> FALSE]
NoClose == [joined |-> {}, notified |-> {}, flushed |-> {}]
MaxWatched == 2         \* saves counted while a note waits for its cleanup

\* a save issued for a note that is waiting for its cleanup is counted
Watched(w, noteId, content) ==
    IF w[noteId].on
    THEN [w EXCEPT ![noteId].saves = Append(@, content)]
    ELSE w

SaveAllowed(noteId) ==
    /\ Len(inflight) < MaxInflight
    /\ watch[noteId].on => Len(watch[noteId].saves) < MaxWatched

\* ------------------------------------------------ socket.service.js
\* io.on('connection')
Connect(c, u) ==
    /\ service = "socket"
    /\ userSockets[c] = NoUser
    /\ userSockets' = [userSockets EXCEPT ![c] = u]
    /\ userConnections' = [userConnections EXCEPT ![u] = @ \cup {c}]
    /\ disconnectionTimeouts' = disconnectionTimeouts \ {u}
    /\ timers' = IF u \in disconnectionTimeouts THEN clearTimeout(timers, u) ELSE timers
    /\ ev' = [type |-> "connect", conn |-> c, note |-> NoNote, user |-> u,
              reconnected |-> u \in disconnectionTimeouts,
              notified |-> IF u \in disconnectionTimeouts THEN lastClose[u].notified ELSE {}]
    /\ lastClose' = [lastClose EXCEPT ![u] = NoClose]
    /\ watch' = [n \in Notes |-> IF watch[n].on /\ watch[n].user = u THEN NoWatch ELSE watch[n]]
    /\ UNCHANGED <<service, cursorThrottle, docVersion, currentNoteId, rooms, joined, pendingJoins, collabVars, dbVars,
                   legacyVars, accepted, applied, seen, fresh>>

\* the token of a handshake: absent, or a JWT that is signed with the server's
\* secret or not, of type access or refresh, naming a user
NoToken == [present |-> FALSE, signed |-> FALSE, type |-> "access", sub |-> NoUser]
Tokens ==
    {NoToken} \cup [present : {TRUE}, signed : BOOLEAN, type : {"access", "refresh"},
                    sub : Users]

\* variant: the claims of the token are read without verifying it
TrustsClaims(token) == token.sub

\* verifyToken(token) with type 'access': the user, or null
verifyToken(token) ==
    IF ~token.signed THEN NoUser           \* jwt.verify throws
    ELSE IF token.type # "access" THEN NoUser
    ELSE token.sub

\* io.use: the handshake of a new socket; next() runs io.on('connection'),
\* next(error) refuses the socket, which then has no handler
Handshake(c, token) ==
    /\ service = "socket"
    /\ userSockets[c] = NoUser
    /\ IF ~token.present \/ verifyToken(token) = NoUser
       THEN /\ ev' = [type |-> "refused", conn |-> c, note |-> NoNote,
                      why |-> IF ~token.present THEN "missing" ELSE "invalid"]
            /\ UNCHANGED <<service, cursorThrottle, docVersion, socketVars, collabVars, dbVars, legacyVars, accepted,
                           applied, lastClose, watch, seen, fresh>>
       ELSE Connect(c, verifyToken(token))

\* socket.on('join-note'): up to the await of checkNoteAccess
JoinNote(c, n) ==
    /\ service = "socket"
    /\ userSockets[c] # NoUser
    /\ Cardinality(pendingJoins) < MaxPending
    /\ ~\E p \in pendingJoins : p.conn = c /\ ~p.dead
    /\ pendingJoins' = pendingJoins \cup
           {[conn |-> c, user |-> userSockets[c], note |-> n, stage |-> "access", dead |-> FALSE]}
    /\ ev' = Quiet("join-note", c, n)
    /\ UNCHANGED <<service, cursorThrottle, docVersion, userSockets, userConnections, disconnectionTimeouts, currentNoteId,
                   rooms, joined, timers, collabVars, dbVars, legacyVars, accepted, applied,
                   lastClose, watch, seen, fresh>>

\* the rest of join-note once the document is initialised: joinSession,
\* note-state to the socket, users-changed to the room
FinishJoin(p, docs, loaded) ==
    /\ documents' = joinSessionDocs(docs, p.note, p.user)
    /\ activeUsers' = joinSessionActive(activeUsers, p.note, p.user)
    /\ pendingJoins' = pendingJoins \ {p}
    /\ joined' = IF p.dead THEN joined ELSE [joined EXCEPT ![p.conn] = @ \cup {p.note}]
    /\ ev' = [type |-> "joined", conn |-> p.conn, note |-> p.note, user |-> p.user,
              dead |-> p.dead,
              \* note-state: docState's version, content, activeUsers, cursors, typing
              state |-> getDocumentState(documents', activeUsers', p.note),
              cursors |-> cursorPositions[p.note], typing |-> typingStatus[p.note]]
    /\ accepted' = IF documents[p.note] = NoDoc THEN [accepted EXCEPT ![p.note] = 0] ELSE accepted
    /\ applied' = IF documents[p.note] = NoDoc
                  THEN [applied EXCEPT ![p.note] = loaded] ELSE applied
    /\ watch' = [watch EXCEPT ![p.note] = NoWatch]
    \* the cleanup timers still pending were set before this participant came
    /\ fresh' = [fresh EXCEPT ![p.note] = 0]

\* join-note resumes after checkNoteAccess
AccessChecked(p) ==
    /\ service = "socket"
    /\ p \in pendingJoins /\ p.stage = "access"
    /\ IF ~checkNoteAccess(p.user, p.note)
       THEN /\ pendingJoins' = pendingJoins \ {p}
            /\ ev' = [type |-> "error", conn |-> p.conn, note |-> p.note, why |-> "access"]
            /\ UNCHANGED <<currentNoteId, rooms, joined, collabVars, accepted, applied, watch,
                           fresh>>
       ELSE /\ currentNoteId' = IF p.dead THEN currentNoteId
                                ELSE [currentNoteId EXCEPT ![p.conn] = p.note]
            /\ rooms' = IF p.dead THEN rooms ELSE [rooms EXCEPT ![p.conn] = @ \cup {p.note}]
            /\ IF documents[p.note] # NoDoc
               THEN FinishJoin(p, documents, documents[p.note].content)
               ELSE /\ pendingJoins' = (pendingJoins \ {p}) \cup {[p EXCEPT !.stage = "load"]}
                    \* getNoteContent is called; another join may be waiting for the same row
                    /\ ev' = [type |-> "join-load", conn |-> p.conn, note |-> p.note,
                              loading |-> {q \in pendingJoins \ {p} :
                                              q.note = p.note /\ q.stage = "load"}]
                    /\ UNCHANGED <<joined, documents, activeUsers, accepted, applied, watch,
                                   fresh>>
            /\ UNCHANGED <<typingStatus, cursorPositions>>
    /\ UNCHANGED <<service, cursorThrottle, docVersion, userSockets, userConnections, disconnectionTimeouts, timers,
                   dbVars, legacyVars, lastClose, seen>>

\* join-note resumes after getNoteContent: the row's content, or a failure
NoteLoaded(p, ok) ==
    /\ service = "socket"
    /\ p \in pendingJoins /\ p.stage = "load"
    /\ IF ok
       THEN FinishJoin(p, initializeDocument(documents, p.note, store[p.note]), store[p.note])
       ELSE /\ pendingJoins' = pendingJoins \ {p}
            /\ ev' = [type |-> "error", conn |-> p.conn, note |-> p.note, why |-> "load"]
            /\ UNCHANGED <<joined, documents, activeUsers, accepted, applied, watch, fresh>>
    /\ UNCHANGED <<service, cursorThrottle, docVersion, userSockets, userConnections, disconnectionTimeouts, currentNoteId,
                   rooms, timers, typingStatus, cursorPositions, dbVars, legacyVars, lastClose,
                   seen>>

\* handleUserLeaveNote(socket, noteId): what it computes
hasOtherConnections(c, u, n) ==
    \E o \in userConnections[u] \ {c} : userSockets[o] # NoUser /\ currentNoteId[o] = n

handleUserLeaveNote(c, n) ==
    LET u == userSockets[c]
        docs == leaveSessionDocs(documents, n, u)
        active == leaveSessionMap(documents, activeUsers, n, u)
        docState == getDocumentState(docs, active, n)
        alone == ~hasOtherConnections(c, u, n)
    IN  [docs |-> docs, active |-> active,
         typing |-> leaveSessionMap(documents, typingStatus, n, u),
         cursors |-> leaveSessionMap(documents, cursorPositions, n, u),
         \* users-changed and typing-updated to the room
         notify |-> alone /\ docState # NoDoc,
         to |-> {o \in Conns \ {c} : userSockets[o] # NoUser /\ n \in rooms[o]},
         \* final save and cleanup timer
         final |-> alone /\ docState # NoDoc /\ docState.activeUsers = {},
         content |-> IF docState = NoDoc THEN NoContent ELSE docState.content]

\* the final save is issued while fewer than `room` saves are outstanding
LeaveFitsIn(room, r, n, more) ==
    r.final => /\ Len(inflight) < room
               /\ watch[n].on => Len(watch[n].saves) < MaxWatched
               /\ Len(timers) + 1 + more <= MaxTimers

LeaveFits(r, n, more) == LeaveFitsIn(MaxInflight, r, n, more)

\* socket.on('leave-note')
LeaveNote(c, n) ==
    /\ service = "socket"
    /\ userSockets[c] # NoUser
    /\ LET r == handleUserLeaveNote(c, n)
       IN  /\ LeaveFits(r, n, 0)
           /\ rooms' = [rooms EXCEPT ![c] = @ \ {n}]
           /\ joined' = [joined EXCEPT ![c] = @ \ {n}]
           /\ documents' = r.docs
           /\ activeUsers' = r.active
           /\ typingStatus' = r.typing
           /\ cursorPositions' = r.cursors
           /\ inflight' = IF r.final THEN saveNoteContent(inflight, n, r.content) ELSE inflight
           /\ timers' = IF r.final THEN Append(timers, CleanupTimer(n)) ELSE timers
           /\ watch' = IF r.final THEN Watched(watch, n, r.content) ELSE watch
           /\ fresh' = IF r.final THEN [fresh EXCEPT ![n] = @ + 1] ELSE fresh
           /\ seen' = [seen EXCEPT ![c][n] = 0]
           /\ ev' = [type |-> "leave-note", conn |-> c, note |-> n, user |-> userSockets[c],
                     notify |-> r.notify, to |-> r.to, final |-> r.final]
    /\ UNCHANGED <<service, cursorThrottle, docVersion, userSockets, userConnections, disconnectionTimeouts, currentNoteId,
                   pendingJoins, store, legacyVars, accepted, applied, lastClose>>

\* socket.on('disconnect'), its final save issued while fewer than `room` saves
\* are outstanding
DisconnectWith(room, c) ==
    /\ service = "socket"
    /\ userSockets[c] # NoUser
    /\ LET u == userSockets[c]
           n == currentNoteId[c]
           leaves == n # NoNote
           r == IF leaves THEN handleUserLeaveNote(c, n)
                ELSE [docs |-> documents, active |-> activeUsers, typing |-> typingStatus,
                      cursors |-> cursorPositions, notify |-> FALSE, to |-> {},
                      final |-> FALSE, content |-> NoContent]
           last == userConnections[u] = {c}
           \* the note's last participant goes with the user's last connection
           wasLast == /\ leaves /\ last /\ documents[n] # NoDoc
                      /\ u \in activeUsers[n] /\ r.active[n] = {}
           \* users-changed reaches a socket of a user who is still a participant
           told == r.notify /\ \E o \in r.to : userSockets[o] \in r.active[n]
       IN  /\ LeaveFitsIn(room, r, n, 1)
           /\ Len(timers) + 1 <= MaxTimers
           /\ documents' = r.docs
           /\ activeUsers' = r.active
           /\ typingStatus' = r.typing
           /\ cursorPositions' = r.cursors
           /\ inflight' = IF r.final THEN saveNoteContent(inflight, n, r.content) ELSE inflight
           /\ userConnections' = [userConnections EXCEPT ![u] = @ \ {c}]
           /\ disconnectionTimeouts' =
                  IF last THEN disconnectionTimeouts \cup {u} ELSE disconnectionTimeouts
           /\ timers' = (IF r.final THEN Append(timers, CleanupTimer(n)) ELSE timers)
                            \o (IF last THEN <<GraceTimer(u)>> ELSE <<>>)
           /\ userSockets' = [userSockets EXCEPT ![c] = NoUser]
           \* the socket object is gone: Socket.IO takes it out of its rooms
           /\ rooms' = [rooms EXCEPT ![c] = {}]
           /\ joined' = [joined EXCEPT ![c] = {}]
           /\ currentNoteId' = [currentNoteId EXCEPT ![c] = NoNote]
           /\ pendingJoins' = {IF p.conn = c THEN [p EXCEPT !.dead = TRUE] ELSE p : p \in pendingJoins}
           /\ lastClose' = IF last
                           THEN [lastClose EXCEPT ![u] =
                                    [joined |-> joined[c],
                                     notified |-> IF told THEN {n} ELSE {},
                                     flushed |-> IF r.final THEN {n} ELSE {}]]
                           ELSE lastClose
           /\ watch' = IF wasLast
                       THEN [watch EXCEPT ![n] =
                                [on |-> TRUE, user |-> u,
                                 saves |-> IF r.final THEN <<r.content>> ELSE <<>>]]
                       ELSE IF r.final THEN Watched(watch, n, r.content) ELSE watch
           /\ fresh' = IF r.final THEN [fresh EXCEPT ![n] = @ + 1] ELSE fresh
           /\ seen' = [seen EXCEPT ![c] = [m \in Notes |-> 0]]
           /\ ev' = [type |-> "disconnect", conn |-> c, note |-> n, user |-> u,
                     notify |-> r.notify, to |-> r.to, final |-> r.final, last |-> last]
    /\ UNCHANGED <<service, cursorThrottle, docVersion, store, legacyVars, accepted, applied>>

\* socket.on('disconnect')
Disconnect(c) == DisconnectWith(MaxInflight, c)

\* the cleanup callback scheduled by handleUserLeaveNote
CleanupFires ==
    /\ service = "socket"
    /\ timers # <<>> /\ Head(timers).kind = "cleanup"
    /\ LET n == Head(timers).id
           currentState == getDocumentState(documents, activeUsers, n)
           clean == currentState # NoDoc /\ currentState.activeUsers = {}
       IN  /\ timers' = Tail(timers)
           /\ documents' = IF clean THEN cleanupDocument(documents, n, NoDoc) ELSE documents
           /\ activeUsers' = IF clean THEN cleanupDocument(activeUsers, n, {}) ELSE activeUsers
           /\ typingStatus' = IF clean THEN cleanupDocument(typingStatus, n, {}) ELSE typingStatus
           /\ cursorPositions' =
                  IF clean THEN cleanupDocument(cursorPositions, n, {}) ELSE cursorPositions
           /\ ev' = [type |-> "cleanup", conn |-> 0, note |-> n, removed |-> clean,
                     content |-> IF clean THEN currentState.content ELSE NoContent,
                     watch |-> IF clean THEN watch[n] ELSE NoWatch,
                     \* no participant has joined since this timer was set
                     fresh |-> fresh[n] = Pending(timers, CleanupTimer(n))]
           /\ fresh' = [fresh EXCEPT ![n] = Min(@, Pending(timers, CleanupTimer(n)) - 1)]
           /\ seen' = IF clean THEN [c \in Conns |-> [seen[c] EXCEPT ![n] = 0]] ELSE seen
           /\ watch' = IF clean THEN [watch EXCEPT ![n] = NoWatch] ELSE watch
           /\ accepted' = IF clean THEN [accepted EXCEPT ![n] = 0] ELSE accepted
           /\ applied' = IF clean THEN [applied EXCEPT ![n] = NoContent] ELSE applied
    /\ UNCHANGED <<service, cursorThrottle, docVersion, userSockets, userConnections, disconnectionTimeouts, currentNoteId,
                   rooms, joined, pendingJoins, dbVars, legacyVars, lastClose>>

\* the reconnection-window callback scheduled by disconnect
GraceFires ==
    /\ service = "socket"
    /\ timers # <<>> /\ Head(timers).kind = "grace"
    /\ LET u == Head(timers).id
       IN  /\ timers' = Tail(timers)
           /\ disconnectionTimeouts' = disconnectionTimeouts \ {u}
           /\ ev' = [type |-> "offline", conn |-> 0, note |-> NoNote, user |-> u,
                     joined |-> lastClose[u].joined, flushed |-> lastClose[u].flushed]
           /\ lastClose' = [lastClose EXCEPT ![u] = NoClose]
    /\ UNCHANGED <<service, cursorThrottle, docVersion, userSockets, userConnections, currentNoteId, rooms, joined, pendingJoins,
                   collabVars, dbVars, legacyVars, accepted, applied, watch, seen, fresh>>

\* the UPDATE of a saveNoteContent runs: it succeeds or fails
SaveDone(i, ok) ==
    /\ i \in 1..Len(inflight)
    /\ store' = IF ok THEN [store EXCEPT ![inflight[i].note] = inflight[i].content] ELSE store
    /\ inflight' = SubSeq(inflight, 1, i - 1) \o SubSeq(inflight, i + 1, Len(inflight))
    /\ ev' = [type |-> "saved", conn |-> 0, note |-> inflight[i].note, ok |-> ok]
    /\ UNCHANGED <<service, cursorThrottle, docVersion, socketVars, collabVars, legacyVars, accepted, applied,
                   lastClose, watch, seen, fresh>>

\* history of a session: operations accepted, and their fold over the loaded content
Counted(acc, n, took) == IF took THEN [acc EXCEPT ![n] = @ + 1] ELSE acc
Folded(app, n, took, op) == IF took THEN [app EXCEPT ![n] = ApplyToContent(@, op)] ELSE app

InRoom(c, n) == {o \in Conns \ {c} : userSockets[o] # NoUser /\ n \in rooms[o]}

\* socket.on('note-update') with data.operation
NoteUpdateOperation(c, n, op, baseVersion, shouldSave) ==
    /\ service = "socket"
    /\ userSockets[c] # NoUser
    /\ IF documents[n] = NoDoc
       THEN \* applyOperation has no session to apply to: the handler's catch replies
            /\ ev' = EditEvent("operation", c, n, baseVersion, documents, FALSE,
                               Reply("error", FALSE, 0, NoContent), shouldSave, NoCast)
            /\ UNCHANGED <<documents, inflight, accepted, applied, watch, seen>>
       ELSE LET base == baseVersion   \* baseVersion || 0: a missing version is 0
                result == applyOperationResult(documents, n, op, base)
                took == ~result.conflict
            IN  /\ took => documents[n].version < MaxVersion /\ Len(result.content) <= MaxLen
                /\ shouldSave => SaveAllowed(n)
                /\ documents' = applyOperationDocs(documents, n, op, base)
                /\ inflight' = SaveIfAsked(inflight, shouldSave, n, result.content)
                /\ watch' = IF shouldSave THEN Watched(watch, n, result.content) ELSE watch
                /\ accepted' = Counted(accepted, n, took)
                /\ applied' = Folded(applied, n, took, op)
                \* the answer is applyOperation's result; operation-applied sends its
                \* version and conflict flag to the socket
                \* remote-operation goes to the rest of the room after every call
                \* of applyOperation that returns
                /\ seen' = Deliver(seen, InRoom(c, n), n, result.version)
                /\ ev' = EditEvent("operation", c, n, baseVersion, documents, took,
                                   Reply("operation-applied", result.conflict, result.version,
                                         result.content), shouldSave,
                                   Cast("remote-operation", InRoom(c, n), result.version,
                                        "operation"))
    /\ UNCHANGED <<service, cursorThrottle, docVersion, socketVars, activeUsers, typingStatus, cursorPositions, store,
                   legacyVars, lastClose, fresh>>

\* the replace operation the content path builds for the whole content
ContentOperation(docState, content) == ReplaceOp(0, Len(docState.content), content)

\* the content path's own version check
ContentConflict(docState, baseVersion) == baseVersion # 0 /\ baseVersion < docState.version

\* socket.on('note-update') with data.content
NoteUpdateContent(c, n, content, baseVersion, shouldSave) ==
    /\ service = "socket"
    /\ userSockets[c] # NoUser
    /\ content # <<>>
    /\ LET docState == getDocumentState(documents, activeUsers, n)
       IN  IF docState = NoDoc
           THEN /\ ev' = EditEvent("content", c, n, baseVersion, documents, FALSE,
                                   Reply("error", FALSE, 0, NoContent), shouldSave, NoCast)
                /\ UNCHANGED <<documents, inflight, accepted, applied, watch, seen>>
           ELSE IF ContentConflict(docState, baseVersion)
           THEN /\ ev' = EditEvent("content", c, n, baseVersion, documents, FALSE,
                                   Reply("version-conflict", TRUE, docState.version,
                                         docState.content), shouldSave, NoCast)
                /\ UNCHANGED <<documents, inflight, accepted, applied, watch, seen>>
           ELSE LET op == ContentOperation(docState, content)
                    result == applyOperationResult(documents, n, op, docState.version)
                IN  /\ docState.version < MaxVersion
                    /\ shouldSave => SaveAllowed(n)
                    /\ documents' = applyOperationDocs(documents, n, op, docState.version)
                    /\ inflight' = SaveIfAsked(inflight, shouldSave, n, result.content)
                    /\ watch' = IF shouldSave THEN Watched(watch, n, result.content) ELSE watch
                    /\ accepted' = Counted(accepted, n, TRUE)
                    /\ applied' = Folded(applied, n, TRUE, op)
                    \* nothing is sent back to the sender; note-updated goes to the room
                    /\ seen' = Deliver(seen, InRoom(c, n), n, result.version)
                    /\ ev' = EditEvent("content", c, n, baseVersion, documents, TRUE,
                                       Reply("none", FALSE, result.version, NoContent),
                                       shouldSave,
                                       Cast("note-updated", InRoom(c, n), result.version,
                                            "content"))
    /\ UNCHANGED <<service, cursorThrottle, docVersion, socketVars, activeUsers, typingStatus, cursorPositions, store,
                   legacyVars, lastClose, fresh>>

\* the Markdown image reference, one symbol of the content
ImageText == <<"img">>

\* socket.on('image-upload-complete'); defined = insertPosition !== undefined
ImageUploadComplete(c, n, defined, insertPosition) ==
    /\ service = "socket"
    /\ userSockets[c] # NoUser
    /\ LET docState == getDocumentState(documents, activeUsers, n)
       IN  IF defined /\ docState # NoDoc
           THEN LET op == InsertOp(insertPosition, ImageText)
                    result == applyOperationResult(documents, n, op, docState.version)
                IN  /\ docState.version < MaxVersion /\ Len(result.content) <= MaxLen
                    /\ documents' = applyOperationDocs(documents, n, op, docState.version)
                    /\ accepted' = Counted(accepted, n, TRUE)
                    /\ applied' = Folded(applied, n, TRUE, op)
                    \* image-upload-complete went to the room before; nothing after
                    /\ ev' = EditEvent("upload", c, n, docState.version, documents, TRUE,
                                       Reply("none", FALSE, result.version, NoContent), FALSE,
                                       Cast("image-upload-complete", InRoom(c, n), 0,
                                            "position"))
           ELSE /\ ev' = [type |-> "image-upload-complete", conn |-> c, note |-> n,
                          defined |-> defined,
                          cast |-> Cast("image-upload-complete", InRoom(c, n), 0, "position")]
                /\ UNCHANGED <<documents, accepted, applied>>
    /\ UNCHANGED <<service, cursorThrottle, docVersion, socketVars, activeUsers, typingStatus, cursorPositions, dbVars,
                   legacyVars, lastClose, watch, seen, fresh>>

\* image-upload-started, image-upload-progress, image-upload-error: relayed to the room
ImageUploadNotice(c, n, kind) ==
    /\ service = "socket"
    /\ userSockets[c] # NoUser
    /\ ev' = Quiet(kind, c, n)
    /\ UNCHANGED <<service, cursorThrottle, docVersion, socketVars, collabVars, dbVars, legacyVars, accepted, applied,
                   lastClose, watch, seen, fresh>>

\* ------------------------------------------------------------- presence
MaxCursors == 1         \* cursor entries kept at a time, over all notes

updateTypingStatus(map, noteId, userId, isTyping) ==
    IF isTyping THEN [map EXCEPT ![noteId] = @ \cup {userId}]
    ELSE [map EXCEPT ![noteId] = @ \ {userId}]

updateCursorPosition(map, noteId, userId) == [map EXCEPT ![noteId] = @ \cup {userId}]

\* variant: the cursor of a note with no document creates the document
CursorCreatesDocument(docs, noteId) == getOrCreateDocument(docs, noteId, <<>>)

\* updateCursorPosition and updateTypingStatus create the note's entry in
\* their own map and read no other: the documents stay as they are
PresenceDocs(docs, noteId) == docs

CursorEntries(map) == {<<n, u>> \in Notes \X Users : u \in map[n]}

\* lodash's throttle around updateCursorPosition, one for every caller: whether
\* a window of 50 ms is open, the arguments of the last call made inside it,
\* and what the wrapped function returned last (never read once the window
\* has closed with no call queued)
NoArgs == [absent |-> TRUE]

\* socket.on('typing-status'): it passes (noteId, userId, isTyping), so the
\* function's isTyping parameter, the fourth, is undefined
TypingStatus(c, n, isTyping) ==
    /\ service = "socket"
    /\ userSockets[c] # NoUser
    /\ typingStatus' = updateTypingStatus(typingStatus, n, userSockets[c], FALSE)
    /\ documents' = PresenceDocs(documents, n)
    /\ ev' = [type |-> "typing-status", conn |-> c, note |-> n, typing |-> isTyping]
    /\ UNCHANGED <<service, cursorThrottle, docVersion, socketVars, activeUsers, cursorPositions, dbVars,
                   legacyVars, accepted, applied, lastClose, watch, seen, fresh>>

\* socket.on('cursor-move') more than 50 ms after the cursor-move before it:
\* the throttle is idle, runs the call, and is idle again when the next comes
CursorMove(c, n) ==
    /\ service = "socket"
    /\ userSockets[c] # NoUser
    /\ ~cursorThrottle.waiting
    /\ cursorPositions' = updateCursorPosition(cursorPositions, n, userSockets[c])
    /\ Cardinality(CursorEntries(cursorPositions')) <= MaxCursors
    /\ documents' = PresenceDocs(documents, n)
    /\ ev' = Quiet("cursor-move", c, n)
    /\ UNCHANGED <<service, cursorThrottle, docVersion, socketVars, activeUsers, typingStatus, dbVars,
                   legacyVars, accepted, applied, lastClose, watch, seen, fresh>>

\* socket.on('cursor-move') with the window of the throttle left open behind
\* it: outside a window the call runs updateCursorPosition and opens one;
\* inside a window it is queued in place of the call queued before, and gets
\* the result of the last run
ThrottledCursorMove(c, n) ==
    /\ service = "socket"
    /\ userSockets[c] # NoUser
    /\ LET u == userSockets[c]
       IN  /\ IF ~cursorThrottle.waiting
              THEN /\ cursorPositions' = updateCursorPosition(cursorPositions, n, u)
                   /\ Cardinality(CursorEntries(cursorPositions')) <= MaxCursors
                   /\ cursorThrottle' = [waiting |-> TRUE, lastArgs |-> NoArgs,
                                         result |-> [note |-> n, users |-> cursorPositions'[n]]]
              ELSE /\ cursorPositions' = cursorPositions
                   /\ cursorThrottle' = [cursorThrottle EXCEPT
                                            !.lastArgs = [note |-> n, user |-> u]]
           /\ ev' = [type |-> "cursor-move", conn |-> c, note |-> n, user |-> u,
                     ran |-> ~cursorThrottle.waiting,
                     \* cursors-updated carries what the throttled function returned
                     cursors |-> cursorThrottle'.result, to |-> InRoom(c, n)]
    /\ documents' = PresenceDocs(documents, n)
    /\ UNCHANGED <<service, docVersion, socketVars, activeUsers, typingStatus, dbVars,
                   legacyVars, accepted, applied, lastClose, watch, seen, fresh>>

\* the window of the throttle ends: the queued call, if any, runs now, and
\* calls stay queued for the 50 ms after it; with none queued the throttle is idle
timerExpired ==
    /\ service = "socket"
    /\ cursorThrottle.waiting
    /\ LET args == cursorThrottle.lastArgs
       IN  IF args # NoArgs
           THEN /\ cursorPositions' = updateCursorPosition(cursorPositions, args.note, args.user)
                /\ Cardinality(CursorEntries(cursorPositions')) <= MaxCursors
                /\ cursorThrottle' = [waiting |-> TRUE, lastArgs |-> NoArgs,
                                      result |-> [note |-> args.note,
                                                 users |-> cursorPositions'[args.note]]]
                /\ ev' = [type |-> "cursor-timer", conn |-> 0, note |-> args.note,
                          user |-> args.user, ran |-> TRUE]
           ELSE /\ cursorPositions' = cursorPositions
                /\ cursorThrottle' = [waiting |-> FALSE, lastArgs |-> NoArgs, result |-> NoArgs]
                /\ ev' = [type |-> "cursor-timer", conn |-> 0, note |-> NoNote,
                          user |-> NoUser, ran |-> FALSE]
    /\ UNCHANGED <<service, docVersion, socketVars, documents, activeUsers, typingStatus,
                   dbVars, legacyVars, accepted, applied, lastClose, watch, seen, fresh>>

\* --------------- collaborative-editing.service.js called through its exports
CallGetOrCreateDocument(n, initialContent) ==
    /\ service = "collab"
    /\ documents' = getOrCreateDocument(documents, n, initialContent)
    /\ accepted' = IF documents[n] = NoDoc THEN [accepted EXCEPT ![n] = 0] ELSE accepted
    /\ applied' = IF documents[n] = NoDoc THEN [applied EXCEPT ![n] = initialContent]
                  ELSE applied
    /\ ev' = Quiet("getOrCreateDocument", 0, n)
    /\ UNCHANGED <<service, cursorThrottle, docVersion, socketVars, activeUsers, typingStatus, cursorPositions, dbVars,
                   legacyVars, lastClose, watch, seen, fresh>>

CallAddUserToDocument(n, u) ==
    /\ service = "collab"
    /\ documents' = addUserToDocumentDocs(documents, n, u)
    /\ activeUsers' = addUserToDocumentActive(activeUsers, n, u)
    /\ accepted' = IF documents[n] = NoDoc THEN [accepted EXCEPT ![n] = 0] ELSE accepted
    /\ applied' = IF documents[n] = NoDoc THEN [applied EXCEPT ![n] = <<>>] ELSE applied
    /\ ev' = Quiet("addUserToDocument", 0, n)
    /\ UNCHANGED <<service, cursorThrottle, docVersion, socketVars, typingStatus, cursorPositions, dbVars, legacyVars,
                   lastClose, watch, seen, fresh>>

CallRemoveUserFromDocument(n, u) ==
    /\ service = "collab"
    /\ documents' = removeUserFromDocumentDocs(documents, n, u)
    /\ activeUsers' = removeUserFromDocumentMap(documents, activeUsers, n, u)
    /\ typingStatus' = removeUserFromDocumentMap(documents, typingStatus, n, u)
    /\ cursorPositions' = removeUserFromDocumentMap(documents, cursorPositions, n, u)
    /\ ev' = Quiet("removeUserFromDocument", 0, n)
    /\ UNCHANGED <<service, cursorThrottle, docVersion, socketVars, dbVars, legacyVars, accepted, applied, lastClose, watch,
                   seen, fresh>>

\* c is the caller, kept for the record of the event only
CallUpdateDocument(c, n, content, version) ==
    /\ service = "collab"
    /\ LET before == getOrCreateDocument(documents, n, <<>>)
           result == updateDocumentResult(documents, n, content, version)
       IN  /\ result.success => result.version <= MaxVersion
           /\ documents' = updateDocumentDocs(documents, n, content, version)
           /\ accepted' = Counted(IF documents[n] = NoDoc THEN [accepted EXCEPT ![n] = 0]
                                  ELSE accepted, n, result.success)
           /\ applied' = Folded(IF documents[n] = NoDoc THEN [applied EXCEPT ![n] = <<>>]
                                ELSE applied, n, result.success,
                                ReplaceOp(0, Len(before[n].content), content))
           /\ ev' = EditEvent("updateDocument", c, n, version, before, result.success,
                              Reply("result", result.conflict, result.version, result.content),
                              FALSE, NoCast)
    /\ UNCHANGED <<service, cursorThrottle, docVersion, socketVars, activeUsers, typingStatus, cursorPositions, dbVars,
                   legacyVars, lastClose, watch, seen, fresh>>

\* ------------------------------ the earlier Socket.IO service (noteVersions)
NewVersionInfo == [version |-> 1, content |-> NoContent]

LegacyConnect(c, u) ==
    /\ service = "legacy"
    /\ userSockets[c] = NoUser
    /\ userSockets' = [userSockets EXCEPT ![c] = u]
    /\ ev' = [type |-> "connect", conn |-> c, note |-> NoNote, user |-> u,
              reconnected |-> FALSE, notified |-> {}]
    /\ UNCHANGED <<service, cursorThrottle, docVersion, userConnections, disconnectionTimeouts, currentNoteId, rooms, joined,
                   pendingJoins, timers, collabVars, dbVars, legacyVars, accepted, applied,
                   lastClose, watch, seen, fresh>>

\* join-note up to the await of checkNoteAccess
LegacyJoinNote(c, n) ==
    /\ service = "legacy"
    /\ userSockets[c] # NoUser
    /\ Cardinality(pendingJoins) < MaxPending
    /\ ~\E p \in pendingJoins : p.conn = c /\ ~p.dead
    /\ pendingJoins' = pendingJoins \cup
           {[conn |-> c, user |-> userSockets[c], note |-> n, stage |-> "access", dead |-> FALSE]}
    /\ ev' = Quiet("join-note", c, n)
    /\ UNCHANGED <<service, cursorThrottle, docVersion, userSockets, userConnections, disconnectionTimeouts, currentNoteId,
                   rooms, joined, timers, collabVars, dbVars, legacyVars, accepted, applied,
                   lastClose, watch, seen, fresh>>

\* join-note after checkNoteAccess
LegacyAccessCheckedHandler(p) ==
    /\ service = "legacy"
    /\ p \in pendingJoins /\ p.stage = "access"
    /\ pendingJoins' = pendingJoins \ {p}
    /\ IF ~checkNoteAccess(p.user, p.note)
       THEN /\ ev' = [type |-> "error", conn |-> p.conn, note |-> p.note, why |-> "access"]
            /\ UNCHANGED <<rooms, joined, activeUsers, noteVersions, accepted, applied>>
       ELSE /\ rooms' = IF p.dead THEN rooms ELSE [rooms EXCEPT ![p.conn] = @ \cup {p.note}]
            /\ joined' = IF p.dead THEN joined ELSE [joined EXCEPT ![p.conn] = @ \cup {p.note}]
            /\ activeUsers' = [activeUsers EXCEPT ![p.note] = @ \cup {p.user}]
            /\ noteVersions' = IF noteVersions[p.note] = NoDoc
                               THEN [noteVersions EXCEPT ![p.note] = NewVersionInfo]
                               ELSE noteVersions
            /\ accepted' = IF noteVersions[p.note] = NoDoc
                           THEN [accepted EXCEPT ![p.note] = 0] ELSE accepted
            /\ applied' = IF noteVersions[p.note] = NoDoc
                          THEN [applied EXCEPT ![p.note] = NoContent] ELSE applied
            /\ ev' = [type |-> "joined", conn |-> p.conn, note |-> p.note, user |-> p.user,
                      dead |-> p.dead,
                      \* note-version has the version; users-changed, which the
                      \* socket gets with the room, has the participants
                      state |-> [content |-> Absent,
                                 version |-> noteVersions'[p.note].version,
                                 activeUsers |-> activeUsers'[p.note]],
                      cursors |-> Absent, typing |-> Absent]
    /\ UNCHANGED <<service, cursorThrottle, userSockets, userConnections, disconnectionTimeouts, currentNoteId,
                   timers, documents, typingStatus, cursorPositions, dbVars, activeTyping,
                   activeUploads, lastClose, watch, seen, fresh>>

\* join-note after checkNoteAccess, the client left aside
LegacyAccessChecked(p) ==
    LegacyAccessCheckedHandler(p) /\ UNCHANGED docVersion

LegacyLeaveNote(c, n) ==
    /\ service = "legacy"
    /\ userSockets[c] # NoUser
    /\ rooms' = [rooms EXCEPT ![c] = @ \ {n}]
    /\ joined' = [joined EXCEPT ![c] = @ \ {n}]
    /\ activeUsers' = [activeUsers EXCEPT ![n] = @ \ {userSockets[c]}]
    /\ seen' = [seen EXCEPT ![c][n] = 0]
    /\ ev' = [type |-> "leave-note", conn |-> c, note |-> n, user |-> userSockets[c],
              notify |-> TRUE, to |-> InRoom(c, n), final |-> FALSE]
    /\ UNCHANGED <<service, cursorThrottle, docVersion, userSockets, userConnections, disconnectionTimeouts, currentNoteId,
                   pendingJoins, timers, documents, typingStatus, cursorPositions, dbVars,
                   legacyVars, accepted, applied, lastClose, watch, fresh>>

\* the version check of the earlier note-update
LegacyConflict(versionInfo, localVersion) ==
    localVersion # 0 /\ localVersion < versionInfo.version

LegacyNextVersion(versionInfo) == versionInfo.version + 1

LegacyNoteUpdateHandler(c, n, content, localVersion, shouldSave) ==
    /\ service = "legacy"
    /\ userSockets[c] # NoUser
    /\ LET versionInfo == noteVersions[n]
       IN  IF versionInfo = NoDoc
           THEN /\ ev' = EditEvent("legacy", c, n, localVersion, noteVersions, FALSE,
                                   Reply("error", FALSE, 0, NoContent), shouldSave, NoCast)
                /\ UNCHANGED <<noteVersions, inflight, accepted, applied, seen>>
           ELSE IF LegacyConflict(versionInfo, localVersion)
           THEN /\ ev' = EditEvent("legacy", c, n, localVersion, noteVersions, FALSE,
                                   Reply("version-conflict", TRUE, versionInfo.version,
                                         versionInfo.content), shouldSave, NoCast)
                /\ UNCHANGED <<noteVersions, inflight, accepted, applied, seen>>
           ELSE /\ versionInfo.version < MaxVersion
                /\ shouldSave => Len(inflight) < MaxInflight
                /\ noteVersions' = [noteVersions EXCEPT
                                       ![n].version = LegacyNextVersion(versionInfo),
                                       ![n].content = content]
                /\ inflight' = SaveIfAsked(inflight, shouldSave, n, content)
                /\ accepted' = Counted(accepted, n, TRUE)
                /\ applied' = Folded(applied, n, TRUE,
                                     ReplaceOp(0, Len(versionInfo.content), content))
                /\ seen' = Deliver(seen, InRoom(c, n), n, LegacyNextVersion(versionInfo))
                /\ ev' = EditEvent("legacy", c, n, localVersion, noteVersions, TRUE,
                                   Reply("none", FALSE, noteVersions'[n].version, NoContent),
                                   shouldSave,
                                   Cast("note-updated", InRoom(c, n),
                                        LegacyNextVersion(versionInfo), "content"))
    /\ UNCHANGED <<service, cursorThrottle, socketVars, collabVars, store, activeTyping, activeUploads,
                   lastClose, watch, fresh>>

\* note-update, the client left aside
LegacyNoteUpdate(c, n, content, localVersion, shouldSave) ==
    LegacyNoteUpdateHandler(c, n, content, localVersion, shouldSave) /\ UNCHANGED docVersion

LegacyTypingStatus(c, n, isTyping) ==
    /\ service = "legacy"
    /\ userSockets[c] # NoUser
    /\ activeTyping' = updateTypingStatus(activeTyping, n, userSockets[c], isTyping)
    /\ ev' = [type |-> "typing-status", conn |-> c, note |-> n, typing |-> isTyping]
    /\ UNCHANGED <<service, cursorThrottle, docVersion, socketVars, collabVars, dbVars, noteVersions, activeUploads,
                   accepted, applied, lastClose, watch, seen, fresh>>

\* the uploads the earlier service tracks, and the callback that forgets one
ImageIds == {"i1"}
Urls == {"x", "y"}
NoUrl == "undefined"
ProgressValues == {0, 50, 100, 150}     \* what a client may send as progress
UploadTimer(n, i) == [kind |-> "upload", id |-> n, image |-> i]

NoTicket == [absent |-> TRUE]
NoUploads == [i \in ImageIds |-> NoTicket]
Ticket(u, progress, status, url) ==
    [userId |-> u, progress |-> progress, status |-> status, url |-> url]

\* the image ids that have a ticket in the note's map
Tracked(n) == {i \in ImageIds : activeUploads[n][i] # NoTicket}

\* image-upload-started: the upload is tracked and announced to the room
LegacyImageUploadStarted(c, n, i) ==
    /\ service = "legacy"
    /\ userSockets[c] # NoUser
    /\ activeUploads' = [activeUploads EXCEPT
                             ![n][i] = Ticket(userSockets[c], 0, "uploading", NoUrl)]
    /\ ev' = [type |-> "image-upload-started", conn |-> c, note |-> n, image |-> i,
              to |-> InRoom(c, n), status |-> "uploading"]
    /\ UNCHANGED <<service, cursorThrottle, docVersion, socketVars, collabVars, dbVars, noteVersions, activeTyping,
                   accepted, applied, lastClose, watch, seen, fresh>>

\* image-upload-progress: stored and relayed when the upload is tracked
LegacyImageUploadProgress(c, n, i, progress) ==
    /\ service = "legacy"
    /\ userSockets[c] # NoUser
    /\ IF i \notin Tracked(n)
       THEN /\ ev' = [type |-> "image-upload-progress", conn |-> c, note |-> n, image |-> i,
                      to |-> {}, status |-> "none"]
            /\ UNCHANGED activeUploads
       ELSE /\ activeUploads' = [activeUploads EXCEPT
                                    ![n][i].progress = progress]   \* upload.progress = progress
            /\ ev' = [type |-> "image-upload-progress", conn |-> c, note |-> n, image |-> i,
                      to |-> InRoom(c, n), status |-> "uploading"]
    /\ UNCHANGED <<service, cursorThrottle, docVersion, socketVars, collabVars, dbVars, noteVersions, activeTyping,
                   accepted, applied, lastClose, watch, seen, fresh>>

\* image-upload-complete: the ticket is completed and the event relayed with
\* the insert position when the upload is tracked; the upload is forgotten a
\* minute later
LegacyImageUploadComplete(c, n, i, url, defined, insertPosition) ==
    /\ service = "legacy"
    /\ userSockets[c] # NoUser
    /\ IF i \notin Tracked(n)
       THEN /\ ev' = [type |-> "image-upload-complete", conn |-> c, note |-> n, image |-> i,
                      defined |-> defined, to |-> {}, cast |-> NoCast, status |-> "none"]
            /\ UNCHANGED <<timers, activeUploads>>
       ELSE /\ Len(timers) < MaxTimers
            /\ timers' = Append(timers, UploadTimer(n, i))
            /\ activeUploads' = [activeUploads EXCEPT
                                    ![n][i] = [@ EXCEPT !.status = "complete",
                                                        !.progress = 100, !.url = url]]
            /\ ev' = [type |-> "image-upload-complete", conn |-> c, note |-> n, image |-> i,
                      defined |-> defined, to |-> InRoom(c, n),
                      cast |-> Cast("image-upload-complete", InRoom(c, n), 0, "position"),
                      status |-> "complete"]
    /\ UNCHANGED <<service, cursorThrottle, docVersion, userSockets, userConnections, disconnectionTimeouts, currentNoteId,
                   rooms, joined, pendingJoins, collabVars, dbVars, noteVersions, activeTyping,
                   accepted, applied, lastClose, watch, seen, fresh>>

\* the callback set by image-upload-complete
LegacyUploadExpires ==
    /\ service = "legacy"
    /\ timers # <<>> /\ Head(timers).kind = "upload"
    /\ timers' = Tail(timers)
    /\ activeUploads' = [activeUploads EXCEPT ![Head(timers).id][Head(timers).image] = NoTicket]
    /\ ev' = [type |-> "upload-expired", conn |-> 0, note |-> Head(timers).id,
              image |-> Head(timers).image,
              ticket |-> activeUploads[Head(timers).id][Head(timers).image]]
    /\ UNCHANGED <<service, cursorThrottle, docVersion, userSockets, userConnections, disconnectionTimeouts, currentNoteId,
                   rooms, joined, pendingJoins, collabVars, dbVars, noteVersions, activeTyping,
                   accepted, applied, lastClose, watch, seen, fresh>>

\* variant: the uploads of a note go with its last participant
DropAllUploads(uploads) == NoUploads

\* disconnect drops the upload map of a note left empty only when the map
\* has no ticket
DropUploads(uploads) ==
    IF \A i \in ImageIds : uploads[i] = NoTicket THEN NoUploads ELSE uploads

\* disconnect: the user leaves every note; a note left empty is dropped
LegacyDisconnect(c) ==
    /\ service = "legacy"
    /\ userSockets[c] # NoUser
    /\ LET u == userSockets[c]
           mine == {n \in Notes : u \in activeUsers[n]}
           emptied == {n \in mine : activeUsers[n] = {u}}
       IN  /\ activeUsers' = [n \in Notes |-> activeUsers[n] \ {u}]
           /\ activeTyping' = [n \in Notes |-> IF n \in emptied THEN {}
                                               ELSE IF n \in mine THEN activeTyping[n] \ {u}
                                               ELSE activeTyping[n]]
           /\ noteVersions' = [n \in Notes |-> IF n \in emptied THEN NoDoc ELSE noteVersions[n]]
           /\ activeUploads' = [n \in Notes |-> IF n \in emptied THEN DropUploads(activeUploads[n])
                                                ELSE activeUploads[n]]
           /\ accepted' = [n \in Notes |-> IF n \in emptied THEN 0 ELSE accepted[n]]
           /\ applied' = [n \in Notes |-> IF n \in emptied THEN NoContent ELSE applied[n]]
           /\ seen' = [o \in Conns |-> [n \in Notes |->
                            IF o = c \/ n \in emptied THEN 0 ELSE seen[o][n]]]
           /\ ev' = [type |-> "disconnect", conn |-> c, note |-> NoNote, user |-> u,
                     notify |-> mine \ emptied # {}, to |-> {}, final |-> FALSE,
                     last |-> TRUE, removed |-> emptied]
    /\ userSockets' = [userSockets EXCEPT ![c] = NoUser]
    /\ rooms' = [rooms EXCEPT ![c] = {}]
    /\ joined' = [joined EXCEPT ![c] = {}]
    /\ pendingJoins' = {IF p.conn = c THEN [p EXCEPT !.dead = TRUE] ELSE p : p \in pendingJoins}
    /\ UNCHANGED <<service, cursorThrottle, docVersion, userConnections, disconnectionTimeouts, currentNoteId, timers,
                   documents, typingStatus, cursorPositions, dbVars, lastClose, watch, fresh>>

\* ------------------------------------------------------- specification
Init ==
    /\ service \in {"socket", "legacy", "collab"}
    /\ userSockets = [c \in Conns |-> NoUser]
    /\ userConnections = [u \in Users |-> {}]
    /\ disconnectionTimeouts = {}
    /\ currentNoteId = [c \in Conns |-> NoNote]
    /\ rooms = [c \in Conns |-> {}]
    /\ joined = [c \in Conns |-> {}]
    /\ pendingJoins = {}
    /\ timers = <<>>
    /\ documents = [n \in Notes |-> NoDoc]
    /\ activeUsers = [n \in Notes |-> {}]
    /\ typingStatus = [n \in Notes |-> {}]
    /\ cursorPositions = [n \in Notes |-> {}]
    /\ store = InitialContent
    /\ inflight = <<>>
    /\ noteVersions = [n \in Notes |-> NoDoc]
    /\ activeTyping = [n \in Notes |-> {}]
    /\ ev = Quiet("start", 0, NoNote)
    /\ accepted = [n \in Notes |-> 0]
    /\ applied = [n \in Notes |-> NoContent]
    /\ lastClose = [u \in Users |-> NoClose]
    /\ watch = [n \in Notes |-> NoWatch]
    /\ activeUploads = [n \in Notes |-> NoUploads]
    /\ seen = [c \in Conns |-> [n \in Notes |-> 0]]
    /\ fresh = [n \in Notes |-> 0]
    /\ docVersion = [c \in Conns |-> 1]
    /\ cursorThrottle = [waiting |-> FALSE, lastArgs |-> NoArgs, result |-> NoArgs]

Bases == 0..MaxVersion
UploadNotices == {"image-upload-started", "image-upload-progress", "image-upload-error"}

\* every event with every input
Next ==
    \/ \E c \in Conns, token \in Tokens : Handshake(c, token)
    \/ \E c \in Conns, n \in Notes : JoinNote(c, n)
    \/ \E p \in pendingJoins : AccessChecked(p)
    \/ \E p \in pendingJoins, ok \in BOOLEAN : NoteLoaded(p, ok)
    \/ \E c \in Conns, n \in Notes : LeaveNote(c, n)
    \/ \E c \in Conns : Disconnect(c)
    \/ CleanupFires
    \/ GraceFires
    \/ \E i \in 1..MaxInflight, ok \in BOOLEAN : SaveDone(i, ok)
    \/ \E c \in Conns, n \in Notes, b \in Bases, s \in BOOLEAN :
           \E op \in (IF documents[n] = NoDoc THEN {InsertOp(0, <<"a">>)}
                      ELSE OperationsOn(documents[n].content)) :
               NoteUpdateOperation(c, n, op, b, s)
    \/ \E c \in Conns, n \in Notes, content \in Contents, b \in Bases, s \in BOOLEAN :
           NoteUpdateContent(c, n, content, b, s)
    \/ \E c \in Conns, n \in Notes, defined \in BOOLEAN, i \in 0..MaxLen :
           ImageUploadComplete(c, n, defined, i)
    \/ \E c \in Conns, n \in Notes, kind \in UploadNotices : ImageUploadNotice(c, n, kind)
    \/ \E c \in Conns, n \in Notes, t \in BOOLEAN : TypingStatus(c, n, t)
    \/ \E c \in Conns, n \in Notes : CursorMove(c, n)
    \/ \E n \in Notes, content \in Contents : CallGetOrCreateDocument(n, content)
    \/ \E n \in Notes, u \in Users : CallAddUserToDocument(n, u)
    \/ \E n \in Notes, u \in Users : CallRemoveUserFromDocument(n, u)
    \/ \E c \in Conns, n \in Notes, content \in Contents, v \in Bases : CallUpdateDocument(c, n, content, v)
    \/ \E c \in Conns, u \in Users : LegacyConnect(c, u)
    \/ \E c \in Conns, n \in Notes : LegacyJoinNote(c, n)
    \/ \E p \in pendingJoins : LegacyAccessChecked(p)
    \/ \E c \in Conns, n \in Notes : LegacyLeaveNote(c, n)
    \/ \E c \in Conns, n \in Notes, content \in Contents, b \in Bases, s \in BOOLEAN :
           LegacyNoteUpdate(c, n, content, b, s)
    \/ \E c \in Conns, n \in Notes, t \in BOOLEAN : LegacyTypingStatus(c, n, t)
    \/ \E c \in Conns : LegacyDisconnect(c)
    \/ \E c \in Conns, n \in Notes, i \in ImageIds : LegacyImageUploadStarted(c, n, i)
    \/ \E c \in Conns, n \in Notes, i \in ImageIds, progress \in ProgressValues :
           LegacyImageUploadProgress(c, n, i, progress)
    \/ \E c \in Conns, n \in Notes, i \in ImageIds, url \in Urls, defined \in BOOLEAN,
          at \in 0..MaxLen :
           LegacyImageUploadComplete(c, n, i, url, defined, at)
    \/ LegacyUploadExpires

Spec == Init /\ [][Next]_vars

\* no join-note is waiting for the database
NoneJoining == pendingJoins = {}

\* ---- editing: each socket is one user's, everyone edits note n1 in every
\* way the three services take an edit; nobody leaves
Editor == [c \in Conns |-> IF c = 1 THEN "u1" ELSE "u2"]

NextSync ==
    \/ \E c \in Conns : Connect(c, Editor[c])
    \/ \E c \in Conns : NoneJoining /\ JoinNote(c, "n1")
    \/ \E p \in pendingJoins : AccessChecked(p)
    \/ \E p \in pendingJoins, ok \in BOOLEAN : NoteLoaded(p, ok)
    \/ \E c \in Conns, b \in Bases :
           \E op \in (IF documents["n1"] = NoDoc THEN {InsertOp(0, <<"a">>)}
                      ELSE OperationsOn(documents["n1"].content)) :
               NoteUpdateOperation(c, "n1", op, b, FALSE)
    \/ \E c \in Conns, content \in Contents, b \in Bases :
           NoteUpdateContent(c, "n1", content, b, FALSE)
    \/ \E c \in Conns, defined \in BOOLEAN, i \in 0..MaxLen :
           ImageUploadComplete(c, "n1", defined, i)
    \/ \E content \in Contents : CallGetOrCreateDocument("n1", content)
    \/ \E c \in Conns, content \in Contents, v \in Bases : CallUpdateDocument(c, "n1", content, v)
    \/ \E c \in Conns : LegacyConnect(c, Editor[c])
    \/ \E c \in Conns : NoneJoining /\ LegacyJoinNote(c, "n1")
    \/ \E p \in pendingJoins : LegacyAccessChecked(p)
    \/ \E c \in Conns, content \in Contents, b \in Bases :
           LegacyNoteUpdate(c, "n1", content, b, FALSE)

SpecSync == Init /\ [][NextSync]_vars

\* the session of a note as the running service keeps it
SessionOf(n) == IF service = "legacy" THEN noteVersions[n] ELSE documents[n]

\* ---- versions: one socket of user u1 does everything a socket can do on
\* note n1; an edit writes "b" with no version, version 1 or the session's
Current(n) == IF SessionOf(n) = NoDoc THEN {} ELSE {SessionOf(n).version}
SomeBases(n) == {0, 1} \cup Current(n)
OneConn == {CHOOSE c \in Conns : \A d \in Conns : c <= d}

NextVersions ==
    \/ \E c \in OneConn : Connect(c, "u1")
    \/ \E c \in OneConn : NoneJoining /\ JoinNote(c, "n1")
    \/ \E p \in pendingJoins : AccessChecked(p)
    \/ \E p \in pendingJoins : NoteLoaded(p, TRUE)
    \/ \E c \in OneConn : LeaveNote(c, "n1")
    \/ \E c \in OneConn : Disconnect(c)
    \/ CleanupFires
    \/ GraceFires
    \/ \E i \in 1..MaxInflight, ok \in BOOLEAN : SaveDone(i, ok)
    \/ \E c \in OneConn, b \in SomeBases("n1") :
           NoteUpdateOperation(c, "n1", ReplaceOp(0, MaxLen, <<"b">>), b, FALSE)
    \/ \E c \in OneConn, b \in SomeBases("n1") : NoteUpdateContent(c, "n1", <<"b">>, b, FALSE)
    \/ \E c \in OneConn, defined \in BOOLEAN : ImageUploadComplete(c, "n1", defined, 0)
    \/ \E c \in OneConn, kind \in UploadNotices : ImageUploadNotice(c, "n1", kind)
    \/ \E c \in OneConn, t \in BOOLEAN : TypingStatus(c, "n1", t)
    \/ \E c \in OneConn : CursorMove(c, "n1")
    \/ \E u \in Users : CallAddUserToDocument("n1", u)
    \/ \E u \in Users : CallRemoveUserFromDocument("n1", u)
    \/ \E c \in OneConn, v \in SomeBases("n1") : CallUpdateDocument(c, "n1", <<"b">>, v)
    \/ \E c \in OneConn : LegacyConnect(c, "u1")
    \/ \E c \in OneConn : NoneJoining /\ LegacyJoinNote(c, "n1")
    \/ \E p \in pendingJoins : LegacyAccessChecked(p)
    \/ \E c \in OneConn : LegacyLeaveNote(c, "n1")
    \/ \E c \in OneConn, b \in SomeBases("n1") : LegacyNoteUpdate(c, "n1", <<"b">>, b, FALSE)
    \/ \E c \in OneConn, t \in BOOLEAN : LegacyTypingStatus(c, "n1", t)
    \/ \E c \in OneConn : LegacyDisconnect(c)

SpecVersions == Init /\ [][NextVersions]_vars

\* ---- presence: the sockets of socket.service.js come and go on note n1;
\* the first socket is u1's, the others are anyone's; nobody edits
UserOf(c) == IF c \in OneConn THEN {"u1"} ELSE Users

NextPresence ==
    \/ \E c \in Conns : \E u \in UserOf(c) : Connect(c, u)
    \/ \E c \in Conns : NoneJoining /\ JoinNote(c, "n1")
    \/ \E p \in pendingJoins : AccessChecked(p)
    \/ \E p \in pendingJoins : NoteLoaded(p, TRUE)
    \/ \E c \in Conns : LeaveNote(c, "n1")
    \/ \E c \in Conns : Disconnect(c)
    \/ CleanupFires
    \/ GraceFires
    \/ \E i \in 1..MaxInflight, ok \in BOOLEAN : SaveDone(i, ok)

InitSocket == Init /\ service = "socket"

SpecPresence == InitSocket /\ [][NextPresence]_vars

\* ---- offline: one socket of u1 joins either note, one after the other
NextOffline ==
    \/ \E c \in OneConn : Connect(c, "u1")
    \/ \E c \in OneConn, n \in Notes : NoneJoining /\ JoinNote(c, n)
    \/ \E p \in pendingJoins : AccessChecked(p)
    \/ \E p \in pendingJoins, ok \in BOOLEAN : NoteLoaded(p, ok)
    \/ \E c \in OneConn, n \in Notes : LeaveNote(c, n)
    \/ \E c \in OneConn : Disconnect(c)
    \/ CleanupFires
    \/ GraceFires
    \/ \E i \in 1..MaxInflight, ok \in BOOLEAN : SaveDone(i, ok)

SpecOffline == InitSocket /\ [][NextOffline]_vars

\* ---- flush: u1 works on note n1 from the first socket; another user is
\* connected on the others and sends a whole-content update
NextFlush ==
    \/ \E c \in Conns : Connect(c, Editor[c])
    \/ \E c \in OneConn : NoneJoining /\ JoinNote(c, "n1")
    \/ \E p \in pendingJoins : AccessChecked(p)
    \/ \E p \in pendingJoins : NoteLoaded(p, TRUE)
    \/ \E c \in Conns : Disconnect(c)
    \/ CleanupFires
    \/ GraceFires
    \/ \E i \in 1..MaxInflight, ok \in BOOLEAN : SaveDone(i, ok)
    \/ \E c \in Conns, b \in SomeBases("n1"), s \in BOOLEAN :
           NoteUpdateContent(c, "n1", <<"b">>, b, s)

SpecFlush == InitSocket /\ [][NextFlush]_vars

\* ---- joining: two users join note n1 while the database is slow, and one
\* of them writes once in; joins may overlap; nobody disconnects
NextJoin ==
    \/ \E c \in Conns : Connect(c, Editor[c])
    \/ \E c \in Conns : JoinNote(c, "n1")
    \/ \E p \in pendingJoins : AccessChecked(p)
    \/ \E p \in pendingJoins, ok \in BOOLEAN : NoteLoaded(p, ok)
    \/ \E c \in Conns, b \in SomeBases("n1") : NoteUpdateContent(c, "n1", <<"b">>, b, FALSE)
    \/ \E c \in Conns : LeaveNote(c, "n1")

SpecJoin == InitSocket /\ [][NextJoin]_vars

\* either socket service is running
InitServed == Init /\ service \in {"socket", "legacy"}

\* ---- uploads: one socket of u1 joins note n1, writes and uploads images,
\* in the socket service and in the earlier one; the other sockets join and
\* listen
NextUpload ==
    \/ \E c \in Conns : Connect(c, Editor[c])
    \/ \E c \in Conns : NoneJoining /\ JoinNote(c, "n1")
    \/ \E p \in pendingJoins : AccessChecked(p)
    \/ \E p \in pendingJoins : NoteLoaded(p, TRUE)
    \/ \E c \in OneConn, b \in SomeBases("n1") : NoteUpdateContent(c, "n1", <<"b">>, b, FALSE)
    \/ \E c \in OneConn, defined \in BOOLEAN, at \in 0..MaxLen :
           ImageUploadComplete(c, "n1", defined, at)
    \/ \E c \in OneConn, kind \in UploadNotices : ImageUploadNotice(c, "n1", kind)
    \/ \E c \in Conns : LegacyConnect(c, Editor[c])
    \/ \E c \in Conns : NoneJoining /\ LegacyJoinNote(c, "n1")
    \/ \E p \in pendingJoins : LegacyAccessChecked(p)
    \/ \E c \in OneConn, b \in SomeBases("n1") : LegacyNoteUpdate(c, "n1", <<"b">>, b, FALSE)
    \/ \E c \in OneConn, i \in ImageIds : LegacyImageUploadStarted(c, "n1", i)
    \/ \E c \in OneConn, i \in ImageIds, progress \in ProgressValues :
           LegacyImageUploadProgress(c, "n1", i, progress)
    \/ \E c \in OneConn, i \in ImageIds, url \in Urls, defined \in BOOLEAN, at \in 0..MaxLen :
           LegacyImageUploadComplete(c, "n1", i, url, defined, at)
    \/ LegacyUploadExpires

SpecUpload == InitServed /\ [][NextUpload]_vars

\* ---- residence: the sockets of one user come and go on note n1, in the
\* socket service and in the earlier one; every callback that is due runs
NextResident ==
    \/ \E c \in Conns : Connect(c, "u1")
    \/ \E c \in Conns : NoneJoining /\ JoinNote(c, "n1")
    \/ \E p \in pendingJoins : AccessChecked(p)
    \/ \E p \in pendingJoins : NoteLoaded(p, TRUE)
    \/ \E c \in Conns : LeaveNote(c, "n1")
    \/ \E c \in Conns : Disconnect(c)
    \/ CleanupFires
    \/ GraceFires
    \/ \E i \in 1..MaxInflight, ok \in BOOLEAN : SaveDone(i, ok)
    \/ \E c \in Conns : LegacyConnect(c, "u1")
    \/ \E c \in Conns : NoneJoining /\ LegacyJoinNote(c, "n1")
    \/ \E p \in pendingJoins : LegacyAccessChecked(p)
    \/ \E c \in Conns : LegacyLeaveNote(c, "n1")
    \/ \E c \in Conns : LegacyDisconnect(c)

\* timers fire when they are due and the database answers every query
Callbacks ==
    /\ WF_vars(CleanupFires)
    /\ WF_vars(GraceFires)
    /\ WF_vars(\E p \in pendingJoins : AccessChecked(p))
    /\ WF_vars(\E p \in pendingJoins : NoteLoaded(p, TRUE))
    /\ WF_vars(\E p \in pendingJoins : LegacyAccessChecked(p))
    /\ WF_vars(\E i \in 1..MaxInflight, ok \in BOOLEAN : SaveDone(i, ok))

SpecResident == InitServed /\ [][NextResident]_vars /\ Callbacks

\* ---- access: u1, the owner of note n2, and u2, who has no right to it, do
\* on n2 what a socket of socket.service.js can do; nobody leaves
NextAccess ==
    \/ \E c \in Conns : Connect(c, Editor[c])
    \/ \E c \in Conns : NoneJoining /\ JoinNote(c, "n2")
    \/ \E p \in pendingJoins : AccessChecked(p)
    \/ \E p \in pendingJoins : NoteLoaded(p, TRUE)
    \/ \E i \in 1..MaxInflight : SaveDone(i, TRUE)
    \/ \E c \in Conns, b \in SomeBases("n2") :
           NoteUpdateOperation(c, "n2", InsertOp(0, <<"b">>), b, FALSE)
    \/ \E c \in Conns, b \in SomeBases("n2"), s \in BOOLEAN :
           NoteUpdateContent(c, "n2", <<"b">>, b, s)
    \/ \E c \in Conns, defined \in BOOLEAN : ImageUploadComplete(c, "n2", defined, 0)
    \/ \E c \in Conns, kind \in UploadNotices : ImageUploadNotice(c, "n2", kind)
    \/ \E c \in Conns, t \in BOOLEAN : TypingStatus(c, "n2", t)
    \/ \E c \in Conns : CursorMove(c, "n2")

SpecAccess == InitSocket /\ [][NextAccess]_vars

\* ---- handshakes: sockets connect with every kind of token and disconnect;
\* the first joins note n1 and writes to it
NextAuth ==
    \/ \E c \in Conns, token \in Tokens : Handshake(c, token)
    \/ \E c \in OneConn : NoneJoining /\ JoinNote(c, "n1")
    \/ \E p \in pendingJoins : AccessChecked(p)
    \/ \E p \in pendingJoins : NoteLoaded(p, TRUE)
    \/ \E c \in OneConn : NoteUpdateContent(c, "n1", <<"b">>, 0, FALSE)
    \/ \E c \in Conns : Disconnect(c)
    \/ CleanupFires
    \/ GraceFires
    \/ \E i \in 1..MaxInflight : SaveDone(i, TRUE)

SpecAuth == InitSocket /\ [][NextAuth]_vars

\* ---- saving: one socket of u1 joins note n1, edits it with and without
\* asking for a save, uploads, leaves and disconnects, in the socket service
\* and in the earlier one; saves fail or succeed; every callback that is due
\* runs
NextSave ==
    \/ \E c \in OneConn : Connect(c, "u1")
    \/ \E c \in OneConn : NoneJoining /\ JoinNote(c, "n1")
    \/ \E p \in pendingJoins : AccessChecked(p)
    \/ \E p \in pendingJoins : NoteLoaded(p, TRUE)
    \/ \E c \in OneConn : LeaveNote(c, "n1")
    \/ \E c \in OneConn : Disconnect(c)
    \/ CleanupFires
    \/ GraceFires
    \/ \E i \in 1..MaxInflight, ok \in BOOLEAN : SaveDone(i, ok)
    \/ \E c \in OneConn, b \in SomeBases("n1"), s \in BOOLEAN :
           NoteUpdateOperation(c, "n1", ReplaceOp(0, MaxLen, <<"b">>), b, s)
    \/ \E c \in OneConn, b \in SomeBases("n1"), s \in BOOLEAN :
           NoteUpdateContent(c, "n1", <<"b">>, b, s)
    \/ \E c \in OneConn : ImageUploadComplete(c, "n1", TRUE, 0)
    \/ \E c \in OneConn : LegacyConnect(c, "u1")
    \/ \E c \in OneConn : NoneJoining /\ LegacyJoinNote(c, "n1")
    \/ \E p \in pendingJoins : LegacyAccessChecked(p)
    \/ \E c \in OneConn, b \in SomeBases("n1"), s \in BOOLEAN :
           LegacyNoteUpdate(c, "n1", <<"b">>, b, s)
    \/ \E c \in OneConn : LegacyDisconnect(c)

SpecSave == InitServed /\ [][NextSave]_vars /\ Callbacks

\* ---- tickets: in the earlier service the sockets of u1 and u2 join note n1,
\* upload an image, leave and disconnect; the callback of a completed upload
\* runs when it is due
NextTickets ==
    \/ \E c \in Conns : LegacyConnect(c, Editor[c])
    \/ \E c \in Conns : NoneJoining /\ LegacyJoinNote(c, "n1")
    \/ \E p \in pendingJoins : LegacyAccessChecked(p)
    \/ \E c \in Conns : LegacyLeaveNote(c, "n1")
    \/ \E c \in Conns : LegacyDisconnect(c)
    \/ \E c \in Conns, i \in ImageIds : LegacyImageUploadStarted(c, "n1", i)
    \/ \E c \in Conns, i \in ImageIds, progress \in ProgressValues :
           LegacyImageUploadProgress(c, "n1", i, progress)
    \/ \E c \in Conns, i \in ImageIds, url \in Urls :
           LegacyImageUploadComplete(c, "n1", i, url, TRUE, 0)
    \/ LegacyUploadExpires

InitLegacy == Init /\ service = "legacy"

\* the timers of uploads fire and the access checks of joins answer
SpecTickets ==
    /\ InitLegacy
    /\ [][NextTickets]_vars
    /\ WF_vars(LegacyUploadExpires)
    /\ WF_vars(\E p \in pendingJoins : LegacyAccessChecked(p))

\* ================================================================ claims
Resident(n) == SessionOf(n) # NoDoc
SessionAfter(n) == IF service = "legacy" THEN noteVersions'[n] ELSE documents'[n]

\* C1: an edit of a resident session whose baseVersion is below the session's
\* version is answered as a conflict with the session's version and content,
\* and leaves the session's content and version as they were.
C1Claim ==
    [][(ev'.type = "edit" /\ Resident(ev'.note) /\ ev'.base < ev'.verBefore)
         => /\ ~ev'.accepted
            /\ ev'.reply.conflict
            /\ ev'.reply.version = SessionOf(ev'.note).version
            /\ ev'.reply.content = SessionOf(ev'.note).content
            /\ SessionAfter(ev'.note) = SessionOf(ev'.note)]_vars

C3Claim == (ev.type = "edit" /\ ev.accepted) => ev.base = ev.verBefore

C5Theorem == \A n \in Notes : Resident(n) => SessionOf(n).content = applied[n]

C5Witness ==
    /\ ev.type = "edit" /\ ~ev.accepted /\ ev.reply.conflict
    /\ accepted[ev.note] = 2 /\ Resident(ev.note)

\* C6: while a session is resident its version never decreases: an accepted
\* edit or upload insert makes it strictly larger, and every other event
\* (rejected edit, join, leave, cursor, typing, upload notice, disconnect,
\* timer, save) leaves it as it was
C6Theorem ==
    [][\A n \in Notes :
          (Resident(n) /\ SessionAfter(n) # NoDoc) =>
              IF ev'.type = "edit" /\ ev'.accepted /\ ev'.note = n
              THEN SessionAfter(n).version > SessionOf(n).version
              ELSE SessionAfter(n).version = SessionOf(n).version]_vars

C6Witness ==
    /\ ev.type = "edit" /\ ev.accepted /\ ev.path = "upload"
    /\ ev.verBefore > 1 /\ SessionOf(ev.note).version > ev.verBefore

\* C7: a user is a participant of a note exactly when one of the user's open
\* connections has joined the note, or the reconnection window that began when
\* the user's last connection closed, with that note joined, is still running
HoldsJoined(u, n) == \E c \in Conns : userSockets[c] = u /\ n \in joined[c]
InGrace(u, n) == u \in disconnectionTimeouts /\ n \in lastClose[u].joined

C7Claim ==
    \A u \in Users, n \in Notes :
        u \in activeUsers[n] <=> (HoldsJoined(u, n) \/ InGrace(u, n))

\* C8: when a user registers a new connection before the reconnection window
\* of the last one has run out, no users-changed without that user has gone
\* to the remaining participants of the notes the user had joined
C8Claim == (ev.type = "connect" /\ ev.reconnected) => ev.notified = {}

\* C9: when the reconnection timer of a user fires, the user is out of every
\* session the closed connection had joined, and each of them was flushed
C9Claim ==
    ev.type = "offline" =>
        \A n \in ev.joined : ev.user \notin activeUsers[n] /\ n \in ev.flushed

\* C10: a session removed after its last participant disconnected, with no
\* reconnection and no rejoin since, had exactly one save issued since the
\* disconnect, and that save carried the content the session ended with
C10Claim ==
    (ev.type = "cleanup" /\ ev.removed /\ ev.watch.on) => ev.watch.saves = <<ev.content>>

\* C11: whenever a session is removed from memory, the content the database
\* last stored for the note is the content the session had at its removal
C11Claim == (ev.type = "cleanup" /\ ev.removed) => store[ev.note] = ev.content

\* C12: a session is removed only after it has had no participant for a whole
\* window: the cleanup timer that removes it was set at the last leave, with
\* no join since (a leave, rejoin, leave is not cut short by the first timer)
C12Claim == (ev.type = "cleanup" /\ ev.removed) => ev.fresh

\* C13: with timers firing when due, a resident session that has no
\* participant and no open connection joined to it does not stay that way for
\* ever: it is removed from memory (or somebody joins it again)
Idle(n) ==
    /\ Resident(n)
    /\ activeUsers[n] = {}
    /\ \A c \in Conns : userSockets[c] = NoUser \/ n \notin joined[c]

C13Claim == \A n \in Notes : Idle(n) ~> (~Resident(n) \/ ~Idle(n))

\* C14: a cleanup timer that fires when the note has a participant again, or
\* when its session is already gone, changes nothing but the timer queue; and
\* a reconnection timer runs its callback only for a user who has not
\* connected again since it was set
Settled == <<service, userSockets, userConnections, disconnectionTimeouts, currentNoteId, rooms,
             pendingJoins, documents, activeUsers, typingStatus, cursorPositions, store,
             inflight, noteVersions, activeTyping, activeUploads>>

C15Claim ==
    [][/\ ev'.type = "join-load" => ev'.loading = {}
       /\ (ev'.type = "joined" /\ Resident(ev'.note))
           => /\ SessionAfter(ev'.note).content = SessionOf(ev'.note).content
              /\ SessionAfter(ev'.note).version = SessionOf(ev'.note).version]_vars

\* C16: a join (or a getOrCreateDocument) for a note whose session is resident
\* asks the database for nothing and leaves the content and the version of
\* the session as they were, whatever the database holds for the note
JoinEvents == {"joined", "join-load", "getOrCreateDocument", "addUserToDocument"}

C16Theorem ==
    [][\A n \in Notes :
          (Resident(n) /\ ev'.note = n /\ ev'.type \in JoinEvents)
              => /\ ev'.type # "join-load"
                 /\ SessionAfter(n).content = SessionOf(n).content
                 /\ SessionAfter(n).version = SessionOf(n).version]_vars

C16Witness ==
    /\ service = "socket" /\ ev.type = "joined"
    /\ documents[ev.note].version > 1
    /\ store[ev.note] # documents[ev.note].content

\* C17: an edit that is rejected as a conflict is emitted to no other socket
\* of the room; the conflict goes to the sender only
C17Claim ==
    (ev.type = "edit" /\ ~ev.accepted /\ ev.reply.conflict) => ev.cast.to = {}

\* C18: when an edit is accepted, the sender is answered with the new version,
\* every other open connection joined to the note is sent the operation with
\* the new version, and the sender is not sent the broadcast
JoinedOthers(c, n) == {o \in Conns \ {c} : userSockets[o] # NoUser /\ n \in joined[o]}

C18Claim ==
    (ev.type = "edit" /\ ev.accepted /\ service # "collab") =>
        /\ ev.reply.kind # "none"
        /\ ev.reply.version = SessionOf(ev.note).version
        /\ JoinedOthers(ev.conn, ev.note) \subseteq ev.cast.to
        /\ ev.conn \notin ev.cast.to
        /\ ev.cast.carries = "operation"
        /\ ev.cast.version = SessionOf(ev.note).version

\* C19: the edit broadcasts one socket gets for one note come in the order of
\* publication: each carries a version greater than the one before it
C19Claim ==
    [][(ev'.type = "edit" /\ ev'.cast.version # 0)
          => \A c \in ev'.cast.to :
                 seen[c][ev'.note] # 0 => ev'.cast.version > seen[c][ev'.note]]_vars

\* C20: completing an upload with a defined insertPosition on a note with a
\* resident session applies one insert of the image reference at that
\* position, so the version rises by exactly one; completing with no
\* insertPosition leaves the content and the version as they were
Completes(c, n, defined, at) ==
    \/ ImageUploadComplete(c, n, defined, at)
    \/ \E i \in Tracked(n), url \in Urls : LegacyImageUploadComplete(c, n, i, url, defined, at)

C20Claim ==
    [][\A c \in Conns, n \in Notes, at \in 0..MaxLen :
          /\ (Resident(n) /\ Completes(c, n, TRUE, at))
              => /\ SessionAfter(n).version = SessionOf(n).version + 1
                 /\ SessionAfter(n).content =
                        ApplyToContent(SessionOf(n).content, InsertOp(at, ImageText))
          /\ (Resident(n) /\ Completes(c, n, FALSE, at))
              => SessionAfter(n) = SessionOf(n)]_vars

\* C21: when an upload completes with a defined insertPosition on a resident
\* session that another open connection has joined, what goes to the others
\* is an edit carrying the insert operation and the version that results,
\* and it reaches every one of them
UploadInserted ==
    \/ ev.type = "edit" /\ ev.path = "upload"
    \/ ev.type = "image-upload-complete" /\ ev.defined /\ Resident(ev.note)
           /\ (service = "legacy" => ev.to # {})

C21Claim ==
    (UploadInserted /\ JoinedOthers(ev.conn, ev.note) # {}) =>
        /\ JoinedOthers(ev.conn, ev.note) \subseteq ev.cast.to
        /\ ev.cast.carries = "operation"
        /\ ev.cast.version = SessionOf(ev.note).version

\* C22: no event sent on a socket of a user who is neither the owner of a
\* note nor a collaborator on it, and no refusal of that user's join, changes
\* the note's session, participants, typing set, cursors or tracked uploads,
\* issues a save or reaches another socket
SentEvents ==
    {"join-note", "leave-note", "edit", "typing-status", "cursor-move",
     "image-upload-complete"} \cup UploadNotices

Stranger(c, n) == userSockets[c] # NoUser /\ ~checkNoteAccess(userSockets[c], n)

NoteState(n) ==
    <<documents[n], noteVersions[n], activeUsers[n], typingStatus[n], activeTyping[n],
      cursorPositions[n], activeUploads[n]>>

C22Claim ==
    [][\A c \in Conns, n \in Notes :
          (/\ ev'.conn = c /\ ev'.note = n
           /\ \/ ev'.type \in SentEvents /\ Stranger(c, n)
              \/ ev'.type = "error" /\ ev'.why = "access")
              => /\ UNCHANGED NoteState(n)
                 /\ UNCHANGED inflight
                 /\ ev'.type = "edit" => ev'.cast.to = {}]_vars

\* C23: a handshake with no token, or with a token that is not an access
\* token signed by the server, is refused and changes nothing: the socket is
\* in no registry; and every event handled is of a socket that is registered
Genuine(token) == token.present /\ token.signed /\ token.type = "access"

C23Theorem ==
    [][/\ \A c \in Conns, token \in Tokens :
              (Handshake(c, token) /\ ~Genuine(token))
                  => /\ ev'.type = "refused"
                     /\ UNCHANGED <<Settled, timers, joined>>
       /\ ev'.type \in SentEvents \cup {"disconnect"} => userSockets[ev'.conn] # NoUser]_vars

C23Witness ==
    /\ ev.type = "refused" /\ ev.why = "invalid"
    /\ userSockets[ev.conn] = NoUser
    /\ \E c \in Conns : userSockets[c] # NoUser /\ joined[c] # {}

\* C24: an edit of a note that has no resident session is answered with an
\* error, creates no session, changes no state and is sent to nobody
C24Claim ==
    [][(ev'.type = "edit" /\ ~Resident(ev'.note))
          => /\ ev'.reply.kind = "error"
             /\ SessionAfter(ev'.note) = NoDoc
             /\ UNCHANGED <<Settled, timers>>
             /\ ev'.cast.to = {}]_vars

\* C25: a join whose load of the note fails takes no effect: the socket is
\* not in the note's room, and no session and no participant is added
C25Claim ==
    [][(ev'.type = "error" /\ ev'.why = "load")
          => /\ ev'.note \notin rooms'[ev'.conn]
             /\ UNCHANGED <<documents, activeUsers>>]_vars

\* C26: a save that fails leaves the content and the version of the session
\* as they were; and, with every callback running when due, the content of a
\* session whose save failed reaches the database while the session is
\* resident
C26Claim ==
    /\ [][(ev'.type = "saved" /\ ~ev'.ok)
             => SessionAfter(ev'.note) = SessionOf(ev'.note)]_vars
    /\ \A n \in Notes :
           (ev.type = "saved" /\ ~ev.ok /\ ev.note = n /\ Resident(n))
               ~> (~Resident(n) \/ store[n] = SessionOf(n).content)

\* C27: an edit that does not ask for a save issues no write, accepted or
\* not; a write is issued only by an edit that asks for one or by the leave
\* or disconnect that empties a session
C27Theorem ==
    [][/\ (ev'.type = "edit" /\ ~ev'.saved) => UNCHANGED inflight
       /\ inflight' # inflight /\ Len(inflight') >= Len(inflight)
           => \/ ev'.type = "edit" /\ ev'.saved
              \/ ev'.type \in {"leave-note", "disconnect"} /\ ev'.final]_vars

C27Witness ==
    /\ ev.type = "edit" /\ ev.accepted /\ ~ev.saved
    /\ inflight = <<>>
    /\ store[ev.note] # SessionOf(ev.note).content

\* C28: what a socket is sent when its join succeeds has the version and the
\* content the session has at that moment and the note's participants,
\* cursors and typing users, and the joining user is among the participants
TypingOf(n) == IF service = "legacy" THEN activeTyping[n] ELSE typingStatus[n]

C28Claim ==
    (ev.type = "joined" /\ ~ev.dead) =>
        /\ ev.state.version = SessionOf(ev.note).version
        /\ ev.state.content = SessionOf(ev.note).content
        /\ ev.state.activeUsers = activeUsers[ev.note]
        /\ ev.user \in ev.state.activeUsers
        /\ ev.cursors = cursorPositions[ev.note]
        /\ ev.typing = TypingOf(ev.note)

\* C29: once a socket's typing-status with isTyping false for a note, its
\* leave-note of the note or its disconnect has been handled, the user is
\* not in the note's typing set
C29Claim ==
    [][\A n \in Notes :
          /\ (ev'.type = "typing-status" /\ ev'.note = n /\ ~ev'.typing)
                 => userSockets[ev'.conn] \notin TypingOf(n)'
          /\ (ev'.type = "leave-note" /\ ev'.note = n) => ev'.user \notin TypingOf(n)'
          /\ ev'.type = "disconnect" => ev'.user \notin TypingOf(n)']_vars

\* C30: a cursor-move or a typing-status changes no session's content or
\* version and issues no write; it changes nothing that an edit reads, so
\* the edits before and after it are handled as if it had not been sent
PresenceEvents == {"cursor-move", "typing-status"}

C30Theorem ==
    [][ev'.type \in PresenceEvents
          => UNCHANGED <<documents, noteVersions, store, inflight, activeUsers, userSockets,
                         rooms, accepted, applied>>]_vars

C30Witness ==
    /\ ev.type = "cursor-move"
    /\ Resident(ev.note) /\ SessionOf(ev.note).version > 1
    /\ userSockets[ev.conn] \in cursorPositions[ev.note]

\* C31: a ticket is taken out of the tracking by the callback set at its
\* completion and by nothing else, so not by a leave or a disconnect; and,
\* with the callbacks running when due, every completed ticket is taken out,
\* whoever is still connected
Finished(n, i) ==
    activeUploads[n][i] # NoTicket /\ activeUploads[n][i].status \in {"complete", "error"}

C31Theorem ==
    /\ [][\A n \in Notes, i \in ImageIds :
              (Finished(n, i) /\ activeUploads'[n][i] = NoTicket)
                  => ev'.type = "upload-expired" /\ ev'.note = n /\ ev'.image = i]_vars
    /\ \A n \in Notes, i \in ImageIds : Finished(n, i) ~> activeUploads[n][i] = NoTicket

C31Witness ==
    /\ ev.type = "upload-expired"
    /\ ev.ticket # NoTicket /\ ev.ticket.status = "complete"
    /\ activeUploads[ev.note][ev.image] = NoTicket
    /\ \A c \in Conns : userSockets[c] = NoUser
    /\ activeUsers[ev.note] = {}

\* C32: every tracked ticket has a progress from 0 to 100 and a status that
\* is uploading, complete or error
C32Claim ==
    \A n \in Notes : \A i \in Tracked(n) :
        /\ activeUploads[n][i].progress \in 0..100
        /\ activeUploads[n][i].status \in {"uploading", "complete", "error"}

\* C39: a progress or a completion event for an image whose ticket is
\* complete leaves the ticket as it is (complete, progress 100, its url) and
\* sends the room nothing with status uploading
C39Claim ==
    [][\A n \in Notes, i \in ImageIds :
          (/\ activeUploads[n][i] # NoTicket /\ activeUploads[n][i].status = "complete"
           /\ ev'.type \in {"image-upload-progress", "image-upload-complete"}
           /\ ev'.note = n /\ ev'.image = i)
              => /\ activeUploads'[n][i] = activeUploads[n][i]
                 /\ ev'.to # {} => ev'.status # "uploading"]_vars

\* C33: a join that completes after its socket has disconnected adds no
\* participant: the user is a participant of the note afterwards only if the
\* user was one before
C33Claim ==
    [][(ev'.type = "joined" /\ ev'.dead)
          => (ev'.user \in activeUsers'[ev'.note] => ev'.user \in activeUsers[ev'.note])]_vars

\* ------------------------------------ NoteEditor, the client of the earlier service
\* what the listeners of the editor do with what one note-update made the
\* server emit: version-conflict goes to the sender, note-updated to the
\* others in the room, and both listeners call setDocVersion
Listened(versions, e) ==
    [c \in Conns |->
        IF c = e.conn /\ e.reply.kind = "version-conflict" THEN e.reply.version
        ELSE IF c \in e.cast.to /\ e.cast.kind = "note-updated" THEN e.cast.version
        ELSE versions[c]]

\* socket.on('note-version'): the joining socket takes the server's version
NoteVersionListener(p) ==
    /\ LegacyAccessCheckedHandler(p)
    /\ docVersion' = IF ev'.type = "joined" /\ ~p.dead
                     THEN [docVersion EXCEPT ![p.conn] = ev'.state.version]
                     ELSE docVersion

\* the debounced broadcast of an edit: localVersion is docVersion, shouldSave false
broadcastChanges(c, n, content) ==
    /\ n \in joined[c]
    /\ LegacyNoteUpdateHandler(c, n, content, docVersion[c], FALSE)
    /\ docVersion' = Listened(docVersion, ev')

\* handleSave once onSave has answered: the emit, then setDocVersion(prev => prev + 1)
handleSave(c, n, content) ==
    /\ n \in joined[c]
    /\ LegacyNoteUpdateHandler(c, n, content, docVersion[c], TRUE)
    /\ docVersion' = Listened([docVersion EXCEPT ![c] = @ + 1], ev')

\* one editor writes to n1; the other socket joins at most and listens
NextEditor ==
    \/ \E c \in Conns : LegacyConnect(c, Editor[c])
    \/ \E c \in Conns : NoneJoining /\ LegacyJoinNote(c, "n1")
    \/ \E p \in pendingJoins : NoteVersionListener(p)
    \/ \E c \in Conns : LegacyDisconnect(c)
    \/ \E c \in OneConn, content \in {<<"a">>, <<"b">>} : broadcastChanges(c, "n1", content)
    \/ \E c \in OneConn, content \in {<<"a">>, <<"b">>} : handleSave(c, "n1", content)
    \/ \E i \in 1..MaxInflight, ok \in BOOLEAN : SaveDone(i, ok)

SpecEditor == InitLegacy /\ [][NextEditor]_vars

\* C34: the only writer of a note never gets a version conflict, and after each
\* of its accepted updates its docVersion, which it sends with its next update,
\* is the version the server has for the note
C34Claim ==
    [][\A c \in OneConn :
          (ev'.type = "edit" /\ ev'.conn = c /\ "n1" \in joined[c])
          => /\ ev'.reply.kind # "version-conflict"
             /\ ev'.accepted => docVersion'[c] = noteVersions'[ev'.note].version]_vars

NextCursor ==
    \/ \E c \in Conns : Connect(c, Editor[c])
    \/ \E c \in Conns : NoneJoining /\ JoinNote(c, "n1")
    \/ \E p \in pendingJoins : AccessChecked(p)
    \/ \E p \in pendingJoins : NoteLoaded(p, TRUE)
    \/ \E c \in Conns : LeaveNote(c, "n1")
    \/ \E c \in Conns, n \in Notes : ThrottledCursorMove(c, n)
    \/ timerExpired

SpecCursor == InitSocket /\ [][NextCursor]_vars

\* C37: a cursor update for note N by user U changes N's entry for U and no
\* other, and what it returns is N's cursor set with U in it; a call that waits
\* in the throttle is run for U and N, never dropped for another caller's call
C37Claim ==
    [][/\ ev'.type = "cursor-move"
          => /\ ev'.cursors = [note |-> ev'.note, users |-> cursorPositions'[ev'.note]]
             /\ ev'.user \in ev'.cursors.users
             /\ cursorPositions' = updateCursorPosition(cursorPositions, ev'.note, ev'.user)
       /\ (cursorThrottle.lastArgs # NoArgs
           /\ cursorThrottle'.lastArgs # cursorThrottle.lastArgs)
          => cursorThrottle.lastArgs.user
                 \in cursorPositions'[cursorThrottle.lastArgs.note]]_vars

\* C38: every typing entry and every cursor entry kept for a note is that of
\* a user who is a participant of the note at that time
C38Claim ==
    \A n \in Notes :
        /\ activeTyping[n] \subseteq activeUsers[n]
        /\ typingStatus[n] \subseteq activeUsers[n]
        /\ cursorPositions[n] \subseteq activeUsers[n]

\* ---- order of saves: one socket of u1 joins n1, edits it asking for a save or
\* not, and disconnects while a save may still be outstanding; every UPDATE succeeds
NextOrder ==
    \/ \E c \in OneConn : Connect(c, "u1")
    \/ \E c \in OneConn : NoneJoining /\ JoinNote(c, "n1")
    \/ \E p \in pendingJoins : AccessChecked(p)
    \/ \E p \in pendingJoins : NoteLoaded(p, TRUE)
    \/ \E c \in OneConn, content \in {<<"a">>, <<"b">>}, b \in SomeBases("n1"), s \in BOOLEAN :
           "n1" \in joined[c] /\ NoteUpdateContent(c, "n1", content, b, s)
    \/ \E c \in OneConn : DisconnectWith(MaxOutstanding, c)
    \/ CleanupFires
    \/ GraceFires
    \/ \E i \in 1..MaxOutstanding : SaveDone(i, TRUE)

SpecOrder == InitSocket /\ [][NextOrder]_vars

\* C36: once the saves of a note have all completed, the store holds the content
\* of the save issued last, here the final save of the disconnect, in whatever
\* order the saves completed
C36Claim ==
    \A n \in Notes :
        (/\ watch[n].on /\ watch[n].saves # <<>>
         /\ \A i \in 1..Len(inflight) : inflight[i].note # n)
        => store[n] = watch[n].saves[Len(watch[n].saves)]

====
